---- MODULE Spec2Model ----
(***************************************************************************)
(* Model of the network subsystem of the grinder firmware.                 *)
(*                                                                         *)
(* MQTTManager (src/src/network/mqtt_manager.cpp) is modelled as the       *)
(* record variable mqtt, whose fields are the members of the class.  Each  *)
(* method is an operator MQTTManager_<method> that maps a context          *)
(* [m, nvs, obs] (the object, the NVS store behind the Preferences         *)
(* pointer, and the calls observed during the current operation) to the    *)
(* context after the method has returned; each public method is then       *)
(* wrapped into one action.                                                *)
(*                                                                         *)
(* Strings are sequences of one-character strings.  The clock millis() is  *)
(* an unsigned 32 bit counter, held as <<high half, low half>> because the *)
(* model checker's integers are signed 32 bit numbers.                     *)
(***************************************************************************)
EXTENDS Integers, Sequences, FiniteSets, TLC

VARIABLES
    mqtt,           \* the MQTTManager object
    nvs,            \* contents of the Preferences (NVS) namespace
    wl_connected,   \* WiFi.status() == WL_CONNECTED
    now,            \* millis()
    obs,            \* calls made by the last operation (callbacks, transport)
    streak,         \* consecutive publishes queued after a failed immediate send
    wifi,           \* the WiFiManager object
    wifi_nvs,       \* the Preferences keys of the WiFiManager
    gateway,        \* the UARTGateway object
    uart,           \* the serial line from the companion chip
    service,        \* the NetworkConfigService object
    companion       \* the companion chip

vars == <<mqtt, nvs, wl_connected, now, obs, streak, wifi, wifi_nvs, gateway, uart,
          service, companion>>

----------------------------------------------------------------------------
(* Program constants, src/src/config/network.h                             *)

MQTT_MAX_BROKER_LENGTH == 128
MQTT_MAX_USERNAME_LENGTH == 64
MQTT_MAX_PASSWORD_LENGTH == 64
MQTT_DEFAULT_PORT == 1883
MQTT_CONNECTION_TIMEOUT_MS == 10000
MQTT_RECONNECT_INTERVAL_MS == 5000
MQTT_MAX_RECONNECT_INTERVAL_MS == 30000
MQTT_MAX_FAILED_PUBLISH_QUEUE == 10

WIFI_MAX_SSID_LENGTH == 32
WIFI_MAX_PASSWORD_LENGTH == 64
WIFI_CONNECTION_TIMEOUT_MS == 10000
WIFI_RECONNECT_INTERVAL_MS == 5000
WIFI_MAX_RECONNECT_INTERVAL_MS == 30000
WIFI_MAX_RECONNECT_ATTEMPTS == 3

SYS_TASK_NETWORK_INTERVAL_MS == 500

\* src/src/network/uart_gateway.cpp
STATUS_REQUEST_INTERVAL_MS == 10000
MAX_RX_BUFFER_SIZE == 512
MAX_JSON_SIZE == 768
\* handle: while (uart->available() && bytes_read < 256)
ReadsPerCycle == 256
\* handle: the line terminator '\n' and the ignored '\r'
LF == 10
CR == 13

\* process_publish_queue: const int max_per_cycle = 3
max_per_cycle == 3
\* process_publish_queue: if (pending.retry_count >= 3)
max_retry_count == 3

\* uint8_t arithmetic, and the two halves of an unsigned long
UInt8 == 256
Half == 65536

----------------------------------------------------------------------------
(* Bounds of the exploration                                               *)

\* largest session id the caller hands to publish_session
MaxSessionId == 11
\* the same, where every retry may fail
RetrySessionId == 4
\* clock advances in one behaviour
MaxClockSteps == 1
\* failed retries carried by the queue at any one time
MaxRetryLoad == 1
\* clock advances in one behaviour of the two managers
MaxBackoffSteps == 10
\* clock advances in one behaviour in which the clock wraps around
MaxWrapSteps == 10
\* polling periods that pass in one behaviour of the start-up scenario
MaxScenarioSteps == 12
\* bytes of a frame of the companion chip
FrameLen == 50
\* bytes of a run that the companion chip writes without a terminator
LongRun == 2000
\* clock advances in one behaviour of the relay bridge
MaxRelaySteps == 3

----------------------------------------------------------------------------
(* Values                                                                  *)

DISABLED == "DISABLED"
DISCONNECTED == "DISCONNECTED"
CONNECTING == "CONNECTING"
CONNECTED == "CONNECTED"
ERROR == "ERROR"
MQTTConnectionStatus == {DISABLED, DISCONNECTED, CONNECTING, CONNECTED, ERROR}

SUCCESS == "SUCCESS"
FAILED == "FAILED"
QUEUED == "QUEUED"
MQTTPublishResult == {SUCCESS, FAILED, QUEUED}

\* a null GrindSession pointer
NullSession == 0

\* bug: a new entry starts with one failed retry on its count
PendingPublish_Retried(t, p) == [topic |-> t, payload |-> p, retry_count |-> 1]

\* PendingPublish(t, p): retry_count(0)
PendingPublish(t, p) == [topic |-> t, payload |-> p, retry_count |-> 0]

\* build_session_topic: the topic embeds the session id (and nothing else
\* that varies), so a topic is represented by the session id
build_session_topic(session_id) == session_id

Min(a, b) == IF a < b THEN a ELSE b

\* unsigned long values are <<hi, lo>> with value hi * 2^16 + lo
U32(n) == <<(n \div Half) % Half, n % Half>>

\* a + d modulo 2^32, for 0 <= d < 2^31
U32Add(a, d) ==
    LET lo == a[2] + (d % Half)
        hi == a[1] + (d \div Half) + (lo \div Half)
    IN  <<hi % Half, lo % Half>>

\* a - b modulo 2^32
U32Sub(a, b) ==
    LET lo == a[2] - b[2]
        borrow == IF lo < 0 THEN 1 ELSE 0
    IN  <<(a[1] - b[1] - borrow) % Half, lo % Half>>

\* comparison of an unsigned long with a number below 2^31
U32Less(a, n) == a[1] < n \div Half \/ (a[1] = n \div Half /\ a[2] < n % Half)
U32Greater(a, n) == a[1] > n \div Half \/ (a[1] = n \div Half /\ a[2] > n % Half)

\* unsigned difference millis() - t
Elapsed(t) == U32Sub(now, t)

----------------------------------------------------------------------------
(* Preferences (NVS): every key maps to <<>> (absent) or <<value>>         *)

NvsKeys == {"mqtt_enabled", "mqtt_broker", "mqtt_port", "mqtt_username", "mqtt_password"}

NvsEmpty == [k \in NvsKeys |-> <<>>]

NvsGet(store, key, default) == IF store[key] = <<>> THEN default ELSE store[key][1]

NvsPut(store, key, value) == [store EXCEPT ![key] = <<value>>]

NvsRemove(store, key) == [store EXCEPT ![key] = <<>>]

----------------------------------------------------------------------------
(* Observations: what the operation in progress has called.  They are      *)
(* cleared when a public method is entered.                                *)

NoObs ==
    [ op |-> "none",          \* the public method that ran last
      ret |-> "none",         \* what it returned
      call |-> <<>>,          \* publish_session: <<session, serialisation succeeded>>
      streak |-> 0,           \* handle: the run of queued publishes it found
      status_calls |-> <<>>,  \* status_callback(new_status) invocations
      publish_calls |-> <<>>, \* publish_callback(session_id, result) invocations
      sends |-> <<>>,         \* publish(topic, payload, retain) calls for sessions
      presence |-> 0,         \* publish(will_topic, "online", ...) calls
      connects |-> <<>>,      \* mqtt_client.connect() calls: the server targeted
      lines |-> <<>>,         \* uart->println() calls: the command, the bytes written
      parsed |-> <<>>,        \* parse_response() calls: the frame read, 0 for none
      peak |-> 0,             \* handle: the longest rx_buffer it held
      status_frames |-> <<>>, \* companion chip: the status frames it sent
      forwarded |-> <<>> ]    \* companion chip: mqttClient.publish() of a record

\* Context of a method call: the object, the store, the observations
Ctx(m, store, o) == [m |-> m, nvs |-> store, obs |-> o]

Enter(name) == Ctx(mqtt, nvs, [NoObs EXCEPT !.op = name])

Return(c, value) == [c EXCEPT !.obs.ret = value]

----------------------------------------------------------------------------
(* MQTTManager, src/src/network/mqtt_manager.cpp                           *)

\* MQTTManager::MQTTManager()
MQTTManager_new ==
    [ preferences |-> FALSE,     \* Preferences* is non-null
      mqtt_client |-> [connected |-> FALSE, server |-> <<>>],
      broker |-> <<>>,
      port |-> MQTT_DEFAULT_PORT,
      username |-> <<>>,
      password |-> <<>>,
      enabled |-> FALSE,
      status |-> DISABLED,
      last_connection_attempt |-> U32(0),
      reconnect_interval |-> MQTT_RECONNECT_INTERVAL_MS,
      reconnect_attempts |-> 0,
      status_callback |-> FALSE,   \* a callback is registered
      publish_callback |-> FALSE,
      publish_queue |-> <<>> ]

\* MQTTManager::has_broker_config
MQTTManager_has_broker_config(m) == Len(m.broker) > 0 /\ m.port > 0

\* MQTTManager::update_status
MQTTManager_update_status(c, new_status) ==
    IF c.m.status # new_status
    THEN [c EXCEPT !.m.status = new_status,
                   !.obs.status_calls =
                       IF c.m.status_callback THEN Append(@, new_status) ELSE @]
    ELSE c

\* MQTTManager::publish(topic, payload, retain): the result.
\* fits: strlen(payload) <= mqtt_client.getBufferSize();
\* client_ok: what mqtt_client.publish() returns when it is called.
MQTTManager_publish(c, fits, client_ok) ==
    IF ~c.m.mqtt_client.connected THEN FALSE
    ELSE IF ~fits THEN FALSE
    ELSE client_ok

\* whether MQTTManager::publish reaches mqtt_client.publish()
HandedToClient(c, fits) == c.m.mqtt_client.connected /\ fits

\* a session publish(), as the observations record it
Send(c, kind, topic, fits, client_ok) ==
    [ kind |-> kind, topic |-> topic,
      handed |-> HandedToClient(c, fits),
      ok |-> MQTTManager_publish(c, fits, client_ok) ]

\* MQTTManager::load_broker_config
MQTTManager_load_broker_config(c) ==
    IF ~c.m.preferences THEN c
    ELSE [c EXCEPT !.m.broker = NvsGet(c.nvs, "mqtt_broker", <<>>),
                   !.m.port = NvsGet(c.nvs, "mqtt_port", MQTT_DEFAULT_PORT),
                   !.m.username = NvsGet(c.nvs, "mqtt_username", <<>>),
                   !.m.password = NvsGet(c.nvs, "mqtt_password", <<>>)]

\* MQTTManager::init(prefs); prefs: the pointer is non-null
MQTTManager_init(c, prefs) ==
    LET c1 == [c EXCEPT !.m.preferences = prefs] IN
    IF prefs
    THEN MQTTManager_load_broker_config(
             [c1 EXCEPT !.m.enabled = NvsGet(c.nvs, "mqtt_enabled", FALSE)])
    ELSE c1

\* MQTTManager::connect; accept: what mqtt_client.connect() returns
MQTTManager_connect(c, accept) ==
    IF ~MQTTManager_has_broker_config(c.m)
    THEN MQTTManager_update_status(c, ERROR)
    ELSE IF ~wl_connected
    THEN MQTTManager_update_status(c, ERROR)
    ELSE LET c1 == MQTTManager_update_status(c, CONNECTING)
             c2 == [c1 EXCEPT !.m.mqtt_client.connected = accept,
                              !.obs.connects = Append(@, c1.m.mqtt_client.server),
                              !.m.last_connection_attempt = now]
         IN  IF accept THEN [c2 EXCEPT !.obs.presence = @ + 1] ELSE c2

\* bug: enable() does not test the link itself and leaves that to connect()
enable_IgnoresLink(c, accept) ==
    IF c.m.enabled /\ c.m.status # DISABLED THEN c
    ELSE IF ~MQTTManager_has_broker_config(c.m)
    THEN MQTTManager_update_status(c, ERROR)
    ELSE LET c1 == [c EXCEPT !.m.enabled = TRUE,
                             !.nvs = IF c.m.preferences
                                     THEN NvsPut(@, "mqtt_enabled", TRUE) ELSE @,
                             !.m.mqtt_client.server = <<c.m.broker, c.m.port>>,
                             !.m.reconnect_attempts = 0,
                             !.m.reconnect_interval = MQTT_RECONNECT_INTERVAL_MS]
         IN  MQTTManager_connect(c1, accept)

\* MQTTManager::enable
MQTTManager_enable(c, accept) ==
    IF c.m.enabled /\ c.m.status # DISABLED THEN c
    ELSE IF ~MQTTManager_has_broker_config(c.m)
    THEN MQTTManager_update_status(c, ERROR)
    ELSE IF ~wl_connected
    THEN MQTTManager_update_status(c, ERROR)
    ELSE LET c1 == [c EXCEPT !.m.enabled = TRUE,
                             !.nvs = IF c.m.preferences
                                     THEN NvsPut(@, "mqtt_enabled", TRUE) ELSE @,
                             !.m.mqtt_client.server = <<c.m.broker, c.m.port>>,
                             !.m.reconnect_attempts = 0,
                             !.m.reconnect_interval = MQTT_RECONNECT_INTERVAL_MS]
         IN  MQTTManager_connect(c1, accept)

\* bug: disable() leaves the retry queue as it is
disable_KeepsQueue(c) ==
    IF ~c.m.enabled THEN c
    ELSE LET c1 == [c EXCEPT !.m.enabled = FALSE,
                             !.nvs = IF c.m.preferences
                                     THEN NvsPut(@, "mqtt_enabled", FALSE) ELSE @,
                             !.m.mqtt_client.connected = FALSE]
         IN  MQTTManager_update_status(c1, DISABLED)

\* MQTTManager::disable
MQTTManager_disable(c) ==
    IF ~c.m.enabled THEN c
    ELSE LET c1 == [c EXCEPT !.m.enabled = FALSE,
                             !.nvs = IF c.m.preferences
                                     THEN NvsPut(@, "mqtt_enabled", FALSE) ELSE @,
                             !.m.mqtt_client.connected = FALSE]
             c2 == MQTTManager_update_status(c1, DISABLED)
         IN  [c2 EXCEPT !.m.publish_queue = <<>>]

\* bug: the interval doubles without its ceiling
handle_reconnect_NoCeiling(c, accept) ==
    IF U32Less(Elapsed(c.m.last_connection_attempt), c.m.reconnect_interval) THEN c
    ELSE MQTTManager_connect(
             [c EXCEPT !.m.reconnect_attempts = (@ + 1) % UInt8,
                       !.m.reconnect_interval = @ * 2],
             accept)

\* bug: the wait is over when the clock has passed last attempt + interval; the
\* times are compared, not their difference
handle_reconnect_ComparesTimes(c, accept) ==
    LET due == U32Add(c.m.last_connection_attempt, c.m.reconnect_interval)
    IN  IF now[1] < due[1] \/ (now[1] = due[1] /\ now[2] < due[2]) THEN c
        ELSE MQTTManager_connect(
                 [c EXCEPT !.m.reconnect_attempts = (@ + 1) % UInt8,
                           !.m.reconnect_interval =
                               Min(@ * 2, MQTT_MAX_RECONNECT_INTERVAL_MS)],
                 accept)

\* MQTTManager::handle_reconnect
MQTTManager_handle_reconnect(c, accept) ==
    IF U32Less(Elapsed(c.m.last_connection_attempt), c.m.reconnect_interval) THEN c
    ELSE MQTTManager_connect(
             [c EXCEPT !.m.reconnect_attempts = (@ + 1) % UInt8,
                       !.m.reconnect_interval =
                           Min(@ * 2, MQTT_MAX_RECONNECT_INTERVAL_MS)],
             accept)

\* The while loop of process_publish_queue, with `processed` sends made so far:
\* at most `cycle` sends, an entry dropped at its `ceiling`-th failed retry.
\* outs[i] is the outcome of the i-th publish() of this cycle (the last one
\* repeats).
RECURSIVE DrainLoop(_, _, _, _, _)
DrainLoop(c, outs, processed, cycle, ceiling) ==
    IF c.m.publish_queue = <<>> \/ ~(processed < cycle) THEN c
    ELSE LET pending == Head(c.m.publish_queue)
             o == outs[IF processed < Len(outs) THEN processed + 1 ELSE Len(outs)]
             success == MQTTManager_publish(c, o.fits, o.client_ok)
             c1 == [c EXCEPT !.obs.sends =
                        Append(@, Send(c, "retry", pending.topic, o.fits, o.client_ok))]
             retried == [pending EXCEPT !.retry_count = (@ + 1) % UInt8]
             c2 == IF success
                   THEN [c1 EXCEPT !.m.publish_queue = Tail(@)]
                   ELSE IF retried.retry_count >= ceiling
                   THEN [c1 EXCEPT !.m.publish_queue = Tail(@)]
                   \* push(pending) copies the front to the back, pop() removes the front
                   ELSE [c1 EXCEPT !.m.publish_queue = Tail(Append(@, retried))]
         IN  DrainLoop(c2, outs, processed + 1, cycle, ceiling)

\* bug: the loop is not bounded by max_per_cycle
process_publish_queue_NoCycleLimit(c, outs) ==
    IF c.m.status # CONNECTED THEN c
    ELSE DrainLoop(c, outs, 0, MQTT_MAX_FAILED_PUBLISH_QUEUE + 1, max_retry_count)

\* bug: the loop stops one send early
process_publish_queue_ShortCycle(c, outs) ==
    IF c.m.status # CONNECTED THEN c
    ELSE DrainLoop(c, outs, 0, max_per_cycle - 1, max_retry_count)

\* bug: retry_count > 3 instead of >= 3
process_publish_queue_LateCeiling(c, outs) ==
    IF c.m.status # CONNECTED THEN c
    ELSE DrainLoop(c, outs, 0, max_per_cycle, max_retry_count + 1)

\* bug: a failed entry keeps its place at the front of the queue
RECURSIVE DrainLoop_RequeueFront(_, _, _)
DrainLoop_RequeueFront(c, outs, processed) ==
    IF c.m.publish_queue = <<>> \/ ~(processed < max_per_cycle) THEN c
    ELSE LET pending == Head(c.m.publish_queue)
             o == outs[IF processed < Len(outs) THEN processed + 1 ELSE Len(outs)]
             success == MQTTManager_publish(c, o.fits, o.client_ok)
             c1 == [c EXCEPT !.obs.sends =
                        Append(@, Send(c, "retry", pending.topic, o.fits, o.client_ok))]
             retried == [pending EXCEPT !.retry_count = (@ + 1) % UInt8]
             c2 == IF success \/ retried.retry_count >= max_retry_count
                   THEN [c1 EXCEPT !.m.publish_queue = Tail(@)]
                   ELSE [c1 EXCEPT !.m.publish_queue = <<retried>> \o Tail(@)]
         IN  DrainLoop_RequeueFront(c2, outs, processed + 1)

process_publish_queue_RequeueFront(c, outs) ==
    IF c.m.status # CONNECTED THEN c
    ELSE DrainLoop_RequeueFront(c, outs, 0)

\* bug: a failed entry goes to the back without its retry being counted
RECURSIVE DrainLoop_ForgetsRetries(_, _, _)
DrainLoop_ForgetsRetries(c, outs, processed) ==
    IF c.m.publish_queue = <<>> \/ ~(processed < max_per_cycle) THEN c
    ELSE LET pending == Head(c.m.publish_queue)
             o == outs[IF processed < Len(outs) THEN processed + 1 ELSE Len(outs)]
             success == MQTTManager_publish(c, o.fits, o.client_ok)
             c1 == [c EXCEPT !.obs.sends =
                        Append(@, Send(c, "retry", pending.topic, o.fits, o.client_ok))]
             c2 == IF success
                   THEN [c1 EXCEPT !.m.publish_queue = Tail(@)]
                   ELSE [c1 EXCEPT !.m.publish_queue = Tail(Append(@, pending))]
         IN  DrainLoop_ForgetsRetries(c2, outs, processed + 1)

process_publish_queue_ForgetsRetries(c, outs) ==
    IF c.m.status # CONNECTED THEN c
    ELSE DrainLoop_ForgetsRetries(c, outs, 0)

\* MQTTManager::process_publish_queue; outs: the outcomes of the sends of this cycle
MQTTManager_process_publish_queue(c, outs) ==
    IF c.m.status # CONNECTED THEN c
    ELSE DrainLoop(c, outs, 0, max_per_cycle, max_retry_count)

\* bug: handle() returns on a lost link without touching the status
handle_KeepsStatusOnLinkLoss(c, accept, outs) ==
    IF ~c.m.enabled THEN c
    ELSE IF ~wl_connected THEN c
    ELSE CASE c.m.status = DISABLED -> c
           [] c.m.status = CONNECTING ->
                IF c.m.mqtt_client.connected
                THEN LET c1 == MQTTManager_update_status(c, CONNECTED)
                         c2 == [c1 EXCEPT !.m.reconnect_attempts = 0,
                                          !.m.reconnect_interval = MQTT_RECONNECT_INTERVAL_MS]
                     IN  MQTTManager_process_publish_queue(c2, outs)
                ELSE IF U32Greater(Elapsed(c.m.last_connection_attempt), MQTT_CONNECTION_TIMEOUT_MS)
                THEN MQTTManager_handle_reconnect(
                         MQTTManager_update_status(c, DISCONNECTED), accept)
                ELSE c
           [] c.m.status = CONNECTED ->
                IF ~c.m.mqtt_client.connected
                THEN LET c1 == MQTTManager_update_status(c, DISCONNECTED)
                         c2 == [c1 EXCEPT !.m.reconnect_attempts = 0,
                                          !.m.reconnect_interval = MQTT_RECONNECT_INTERVAL_MS]
                     IN  MQTTManager_handle_reconnect(c2, accept)
                ELSE MQTTManager_process_publish_queue(c, outs)
           [] c.m.status \in {DISCONNECTED, ERROR} ->
                MQTTManager_handle_reconnect(c, accept)

\* MQTTManager::handle.  mqtt_client.loop() only changes what connected() reports,
\* which BrokerDrop does before the call.
MQTTManager_handle(c, accept, outs) ==
    IF ~c.m.enabled THEN c
    ELSE IF ~wl_connected
    THEN (IF c.m.status # ERROR THEN MQTTManager_update_status(c, ERROR) ELSE c)
    ELSE CASE c.m.status = DISABLED -> c
           [] c.m.status = CONNECTING ->
                IF c.m.mqtt_client.connected
                THEN LET c1 == MQTTManager_update_status(c, CONNECTED)
                         c2 == [c1 EXCEPT !.m.reconnect_attempts = 0,
                                          !.m.reconnect_interval = MQTT_RECONNECT_INTERVAL_MS]
                     IN  MQTTManager_process_publish_queue(c2, outs)
                ELSE IF U32Greater(Elapsed(c.m.last_connection_attempt), MQTT_CONNECTION_TIMEOUT_MS)
                THEN MQTTManager_handle_reconnect(
                         MQTTManager_update_status(c, DISCONNECTED), accept)
                ELSE c
           [] c.m.status = CONNECTED ->
                IF ~c.m.mqtt_client.connected
                THEN LET c1 == MQTTManager_update_status(c, DISCONNECTED)
                         c2 == [c1 EXCEPT !.m.reconnect_attempts = 0,
                                          !.m.reconnect_interval = MQTT_RECONNECT_INTERVAL_MS]
                     IN  MQTTManager_handle_reconnect(c2, accept)
                ELSE MQTTManager_process_publish_queue(c, outs)
           [] c.m.status \in {DISCONNECTED, ERROR} ->
                MQTTManager_handle_reconnect(c, accept)

\* if (publish_callback) publish_callback(session_id, result)
Notify(c, session_id, result) ==
    IF c.m.publish_callback
    THEN [c EXCEPT !.obs.publish_calls = Append(@, <<session_id, result>>)]
    ELSE c

\* publish_session with its three decisions open: whether the immediate send
\* is attempted in this status, whether a queue of this length takes one more,
\* and what becomes of the queue when it does not
PublishSessionWith(c, session, ser_ok, fits, client_ok, attempts, room, evict) ==
    IF session = NullSession THEN Return(c, FAILED)
    ELSE IF ~c.m.enabled THEN Return(c, FAILED)
    ELSE IF ~ser_ok THEN Return(c, FAILED)
    ELSE LET topic == build_session_topic(session)
             attempt == c.m.status \in attempts
             success == attempt /\ MQTTManager_publish(c, fits, client_ok)
             c1 == IF attempt
                   THEN [c EXCEPT !.obs.sends =
                            Append(@, Send(c, "immediate", topic, fits, client_ok))]
                   ELSE c
         IN  IF success
             THEN Return(Notify(c1, session, SUCCESS), SUCCESS)
             ELSE IF Len(c1.m.publish_queue) < room
             THEN Return(Notify([c1 EXCEPT !.m.publish_queue =
                                     Append(@, PendingPublish(topic, session))],
                                session, QUEUED), QUEUED)
             ELSE IF evict
             THEN Return(Notify([c1 EXCEPT !.m.publish_queue =
                                     Append(Tail(@), PendingPublish(topic, session))],
                                session, QUEUED), QUEUED)
             ELSE Return(Notify(c1, session, FAILED), FAILED)

\* bug: size() <= MQTT_MAX_FAILED_PUBLISH_QUEUE instead of <
publish_session_OverCapacity(c, session, ser_ok, fits, client_ok) ==
    PublishSessionWith(c, session, ser_ok, fits, client_ok,
                       {CONNECTED}, MQTT_MAX_FAILED_PUBLISH_QUEUE + 1, FALSE)

\* bug: a full queue gives up its oldest entry for the new one
publish_session_EvictsOldest(c, session, ser_ok, fits, client_ok) ==
    PublishSessionWith(c, session, ser_ok, fits, client_ok,
                       {CONNECTED}, MQTT_MAX_FAILED_PUBLISH_QUEUE, TRUE)

\* bug: the immediate send is attempted while still connecting
publish_session_SendsWhileConnecting(c, session, ser_ok, fits, client_ok) ==
    PublishSessionWith(c, session, ser_ok, fits, client_ok,
                       {CONNECTED, CONNECTING}, MQTT_MAX_FAILED_PUBLISH_QUEUE, FALSE)

\* MQTTManager::publish_session.  session: the session id, or NullSession;
\* ser_ok: what serialize_session_to_json returns; fits, client_ok: see publish
MQTTManager_publish_session(c, session, ser_ok, fits, client_ok) ==
    IF session = NullSession THEN Return(c, FAILED)
    ELSE IF ~c.m.enabled THEN Return(c, FAILED)
    ELSE IF ~ser_ok THEN Return(c, FAILED)
    ELSE LET topic == build_session_topic(session)
             attempt == c.m.status = CONNECTED
             success == attempt /\ MQTTManager_publish(c, fits, client_ok)
             c1 == IF attempt
                   THEN [c EXCEPT !.obs.sends =
                            Append(@, Send(c, "immediate", topic, fits, client_ok))]
                   ELSE c
         IN  IF success
             THEN Return(Notify(c1, session, SUCCESS), SUCCESS)
             ELSE IF Len(c1.m.publish_queue) < MQTT_MAX_FAILED_PUBLISH_QUEUE
             THEN Return(Notify([c1 EXCEPT !.m.publish_queue =
                                     Append(@, PendingPublish(topic, session))],
                                session, QUEUED), QUEUED)
             ELSE Return(Notify(c1, session, FAILED), FAILED)

\* a null char pointer
NullStr == <<"nullptr">>

\* bug: the host is stored before the port has been validated
set_broker_config_StoresHostFirst(c, new_broker, new_port, new_username, new_password) ==
    IF new_broker = NullStr \/ Len(new_broker) = 0 THEN Return(c, "false")
    ELSE IF new_port = 0 THEN Return([c EXCEPT !.m.broker = new_broker], "false")
    ELSE IF Len(new_broker) > MQTT_MAX_BROKER_LENGTH THEN Return(c, "false")
    ELSE IF new_username # NullStr /\ Len(new_username) > MQTT_MAX_USERNAME_LENGTH
    THEN Return(c, "false")
    ELSE IF new_password # NullStr /\ Len(new_password) > MQTT_MAX_PASSWORD_LENGTH
    THEN Return(c, "false")
    ELSE LET u == IF new_username # NullStr THEN new_username ELSE <<>>
             pw == IF new_password # NullStr THEN new_password ELSE <<>>
             c1 == [c EXCEPT !.m.broker = new_broker, !.m.port = new_port,
                             !.m.username = u, !.m.password = pw]
             c2 == IF c.m.preferences
                   THEN [c1 EXCEPT !.nvs =
                            NvsPut(NvsPut(NvsPut(NvsPut(@, "mqtt_broker", new_broker),
                                "mqtt_port", new_port), "mqtt_username", u),
                                "mqtt_password", pw)]
                   ELSE c1
         IN  Return(c2, "true")

\* MQTTManager::set_broker_config
MQTTManager_set_broker_config(c, new_broker, new_port, new_username, new_password) ==
    IF new_broker = NullStr \/ Len(new_broker) = 0 THEN Return(c, "false")
    ELSE IF new_port = 0 THEN Return(c, "false")
    ELSE IF Len(new_broker) > MQTT_MAX_BROKER_LENGTH THEN Return(c, "false")
    ELSE IF new_username # NullStr /\ Len(new_username) > MQTT_MAX_USERNAME_LENGTH
    THEN Return(c, "false")
    ELSE IF new_password # NullStr /\ Len(new_password) > MQTT_MAX_PASSWORD_LENGTH
    THEN Return(c, "false")
    ELSE LET u == IF new_username # NullStr THEN new_username ELSE <<>>
             pw == IF new_password # NullStr THEN new_password ELSE <<>>
             c1 == [c EXCEPT !.m.broker = new_broker, !.m.port = new_port,
                             !.m.username = u, !.m.password = pw]
             c2 == IF c.m.preferences
                   THEN [c1 EXCEPT !.nvs =
                            NvsPut(NvsPut(NvsPut(NvsPut(@, "mqtt_broker", new_broker),
                                "mqtt_port", new_port), "mqtt_username", u),
                                "mqtt_password", pw)]
                   ELSE c1
         IN  Return(c2, "true")

\* bug: the configuration is cleared in memory and kept in the store
clear_broker_config_KeepsStore(c) ==
    LET c1 == [c EXCEPT !.m.broker = <<>>, !.m.port = MQTT_DEFAULT_PORT,
                        !.m.username = <<>>, !.m.password = <<>>]
    IN  IF c1.m.enabled THEN MQTTManager_disable(c1) ELSE c1

\* MQTTManager::clear_broker_config
MQTTManager_clear_broker_config(c) ==
    LET c1 == [c EXCEPT !.m.broker = <<>>, !.m.port = MQTT_DEFAULT_PORT,
                        !.m.username = <<>>, !.m.password = <<>>]
        c2 == IF c.m.preferences
              THEN [c1 EXCEPT !.nvs =
                       NvsRemove(NvsRemove(NvsRemove(NvsRemove(@, "mqtt_broker"),
                           "mqtt_port"), "mqtt_username"), "mqtt_password")]
              ELSE c1
    IN  IF c2.m.enabled THEN MQTTManager_disable(c2) ELSE c2

\* MQTTManager::test_connection
MQTTManager_test_connection(c, client_ok) ==
    IF c.m.status # CONNECTED THEN Return(c, "false")
    ELSE Return([c EXCEPT !.obs.presence = @ + 1],
                IF MQTTManager_publish(c, TRUE, client_ok) THEN "true" ELSE "false")

\* MQTTManager::set_publish_callback
MQTTManager_set_publish_callback(c, callback) == [c EXCEPT !.m.publish_callback = callback]

\* MQTTManager::set_status_callback
MQTTManager_set_status_callback(c, callback) == [c EXCEPT !.m.status_callback = callback]

----------------------------------------------------------------------------
(* WiFiManager, src/src/network/wifi_manager.cpp.  A context is            *)
(* [w, nvs, obs, wl]: the object, its store, the observations and what     *)
(* WiFi.status() == WL_CONNECTED reports.                                  *)

WifiNvsKeys == {"wifi_enabled", "wifi_ssid", "wifi_password"}

WifiNvsEmpty == [k \in WifiNvsKeys |-> <<>>]

WifiCtx(w, store, o, wl) == [w |-> w, nvs |-> store, obs |-> o, wl |-> wl]

WifiEnter(name) == WifiCtx(wifi, wifi_nvs, [NoObs EXCEPT !.op = name], wl_connected)

\* WiFiManager::WiFiManager()
WiFiManager_new ==
    [ preferences |-> FALSE,
      ssid |-> <<>>,
      password |-> <<>>,
      enabled |-> FALSE,
      status |-> DISABLED,
      last_connection_attempt |-> U32(0),
      reconnect_interval |-> WIFI_RECONNECT_INTERVAL_MS,
      reconnect_attempts |-> 0,
      status_callback |-> FALSE ]

\* WiFiManager::has_credentials
WiFiManager_has_credentials(w) == Len(w.ssid) > 0 /\ Len(w.password) > 0

\* WiFiManager::update_status
WiFiManager_update_status(c, new_status) ==
    IF c.w.status # new_status
    THEN [c EXCEPT !.w.status = new_status,
                   !.obs.status_calls =
                       IF c.w.status_callback THEN Append(@, new_status) ELSE @]
    ELSE c

\* WiFiManager::load_credentials
WiFiManager_load_credentials(c) ==
    IF ~c.w.preferences THEN c
    ELSE [c EXCEPT !.w.ssid = NvsGet(c.nvs, "wifi_ssid", <<>>),
                   !.w.password = NvsGet(c.nvs, "wifi_password", <<>>)]

\* WiFiManager::connect.  WiFi.begin() starts an attempt; the radio reports
\* its outcome later.
WiFiManager_connect(c) ==
    IF ~WiFiManager_has_credentials(c.w)
    THEN WiFiManager_update_status(c, ERROR)
    ELSE [WiFiManager_update_status(c, CONNECTING)
              EXCEPT !.obs.connects = Append(@, c.w.ssid),
                     !.w.last_connection_attempt = now]

\* enable() has been entered: its entry state is kept among the observations
EnableEntered(c) ==
    [c EXCEPT !.obs.call = Append(@, [enabled |-> c.w.enabled, status |-> c.w.status])]

\* bug: the enabled flag is set and persisted before the credentials are checked
WiFi_enable_FlagBeforeCheck(c) ==
    IF c.w.enabled /\ c.w.status # DISABLED THEN EnableEntered(c)
    ELSE LET c1 == [EnableEntered(c) EXCEPT
                        !.w.enabled = TRUE,
                        !.nvs = IF c.w.preferences
                                THEN NvsPut(@, "wifi_enabled", TRUE) ELSE @]
         IN  IF ~WiFiManager_has_credentials(c.w)
             THEN WiFiManager_update_status(c1, ERROR)
             ELSE WiFiManager_connect(
                      [c1 EXCEPT !.w.reconnect_attempts = 0,
                                 !.w.reconnect_interval = WIFI_RECONNECT_INTERVAL_MS])

\* WiFiManager::enable
WiFiManager_enable(c) ==
    IF c.w.enabled /\ c.w.status # DISABLED THEN EnableEntered(c)
    ELSE IF ~WiFiManager_has_credentials(c.w)
    THEN WiFiManager_update_status(EnableEntered(c), ERROR)
    ELSE WiFiManager_connect(
             [EnableEntered(c) EXCEPT
                  !.w.enabled = TRUE,
                  !.nvs = IF c.w.preferences
                          THEN NvsPut(@, "wifi_enabled", TRUE) ELSE @,
                  !.w.reconnect_attempts = 0,
                  !.w.reconnect_interval = WIFI_RECONNECT_INTERVAL_MS])

\* WiFiManager::init(prefs); prefs: the pointer is non-null
WiFiManager_init(c, prefs) ==
    LET c1 == [c EXCEPT !.w.preferences = prefs] IN
    IF prefs
    THEN LET c2 == WiFiManager_load_credentials(
                       [c1 EXCEPT !.w.enabled = NvsGet(c.nvs, "wifi_enabled", FALSE)])
         IN  IF c2.w.enabled /\ WiFiManager_has_credentials(c2.w)
             THEN WiFiManager_enable(c2)
             ELSE c2
    ELSE c1

\* WiFiManager::disable.  WiFi.disconnect(true) and WiFi.mode(WIFI_OFF) take
\* the radio down.
WiFiManager_disable(c) ==
    IF ~c.w.enabled THEN c
    ELSE WiFiManager_update_status(
             [c EXCEPT !.w.enabled = FALSE,
                       !.nvs = IF c.w.preferences
                               THEN NvsPut(@, "wifi_enabled", FALSE) ELSE @,
                       !.wl = FALSE],
             DISABLED)

\* bug: reconnect_attempts > WIFI_MAX_RECONNECT_ATTEMPTS instead of >=
WiFi_handle_reconnect_LateLimit(c) ==
    IF c.w.reconnect_attempts > WIFI_MAX_RECONNECT_ATTEMPTS
    THEN (IF c.w.status # ERROR THEN WiFiManager_update_status(c, ERROR) ELSE c)
    ELSE IF U32Less(Elapsed(c.w.last_connection_attempt), c.w.reconnect_interval) THEN c
    ELSE WiFiManager_connect(
             [c EXCEPT !.w.reconnect_attempts = (@ + 1) % UInt8,
                       !.w.reconnect_interval =
                           Min(@ * 2, WIFI_MAX_RECONNECT_INTERVAL_MS)])

\* WiFiManager::handle_reconnect
WiFiManager_handle_reconnect(c) ==
    IF c.w.reconnect_attempts >= WIFI_MAX_RECONNECT_ATTEMPTS
    THEN (IF c.w.status # ERROR THEN WiFiManager_update_status(c, ERROR) ELSE c)
    ELSE IF U32Less(Elapsed(c.w.last_connection_attempt), c.w.reconnect_interval) THEN c
    ELSE WiFiManager_connect(
             [c EXCEPT !.w.reconnect_attempts = (@ + 1) % UInt8,
                       !.w.reconnect_interval =
                           Min(@ * 2, WIFI_MAX_RECONNECT_INTERVAL_MS)])

\* WiFiManager::handle
WiFiManager_handle(c) ==
    IF ~c.w.enabled THEN c
    ELSE CASE c.w.status = DISABLED -> c
           [] c.w.status = CONNECTING ->
                IF c.wl
                THEN [WiFiManager_update_status(c, CONNECTED)
                          EXCEPT !.w.reconnect_attempts = 0,
                                 !.w.reconnect_interval = WIFI_RECONNECT_INTERVAL_MS]
                ELSE IF U32Greater(Elapsed(c.w.last_connection_attempt),
                                   WIFI_CONNECTION_TIMEOUT_MS)
                THEN WiFiManager_handle_reconnect(
                         WiFiManager_update_status(c, DISCONNECTED))
                ELSE c
           [] c.w.status = CONNECTED ->
                IF ~c.wl
                THEN WiFiManager_handle_reconnect(
                         [WiFiManager_update_status(c, DISCONNECTED)
                              EXCEPT !.w.reconnect_attempts = 0,
                                     !.w.reconnect_interval = WIFI_RECONNECT_INTERVAL_MS])
                ELSE c
           [] c.w.status \in {DISCONNECTED, ERROR} ->
                WiFiManager_handle_reconnect(c)

\* bug: new credentials restart the connection of an enabled manager
WiFi_set_credentials_Reconnects(c, new_ssid, new_password) ==
    IF new_ssid = NullStr \/ Len(new_ssid) = 0 THEN Return(c, "false")
    ELSE IF new_password = NullStr \/ Len(new_password) = 0 THEN Return(c, "false")
    ELSE IF Len(new_ssid) > WIFI_MAX_SSID_LENGTH THEN Return(c, "false")
    ELSE IF Len(new_password) > WIFI_MAX_PASSWORD_LENGTH THEN Return(c, "false")
    ELSE LET c1 == [c EXCEPT !.w.ssid = new_ssid, !.w.password = new_password]
             c2 == IF c.w.preferences
                   THEN [c1 EXCEPT !.nvs = NvsPut(NvsPut(@, "wifi_ssid", new_ssid),
                                                  "wifi_password", new_password)]
                   ELSE c1
         IN  Return(IF c2.w.enabled THEN WiFiManager_connect(c2) ELSE c2, "true")

\* WiFiManager::set_credentials
WiFiManager_set_credentials(c, new_ssid, new_password) ==
    IF new_ssid = NullStr \/ Len(new_ssid) = 0 THEN Return(c, "false")
    ELSE IF new_password = NullStr \/ Len(new_password) = 0 THEN Return(c, "false")
    ELSE IF Len(new_ssid) > WIFI_MAX_SSID_LENGTH THEN Return(c, "false")
    ELSE IF Len(new_password) > WIFI_MAX_PASSWORD_LENGTH THEN Return(c, "false")
    ELSE LET c1 == [c EXCEPT !.w.ssid = new_ssid, !.w.password = new_password]
             c2 == IF c.w.preferences
                   THEN [c1 EXCEPT !.nvs = NvsPut(NvsPut(@, "wifi_ssid", new_ssid),
                                                  "wifi_password", new_password)]
                   ELSE c1
         IN  Return(c2, "true")

\* WiFiManager::clear_credentials
WiFiManager_clear_credentials(c) ==
    LET c1 == [c EXCEPT !.w.ssid = <<>>, !.w.password = <<>>]
        c2 == IF c.w.preferences
              THEN [c1 EXCEPT !.nvs = NvsRemove(NvsRemove(@, "wifi_ssid"), "wifi_password")]
              ELSE c1
    IN  IF c2.w.enabled THEN WiFiManager_disable(c2) ELSE c2

\* WiFiManager::set_status_callback
WiFiManager_set_status_callback(c, callback) == [c EXCEPT !.w.status_callback = callback]

----------------------------------------------------------------------------
(* UARTGateway, src/src/network/uart_gateway.cpp.  A context is            *)
(* [g, rx, obs]: the object, the bytes waiting in the serial receiver and  *)
(* the observations.  A byte is a number: the two terminators, a byte that *)
(* belongs to no frame, or the i-th byte of one of the frames below.       *)

Noise == UInt8 - 1

FrameByte(f, i) == f * UInt8 + i

Address == "a"

\* the lines the companion chip writes: what the JSON text of each holds
Frames ==
    << [status |-> TRUE,  wifi |-> <<TRUE>>,  mqtt |-> <<TRUE>>,  ip |-> <<Address>>],
       [status |-> TRUE,  wifi |-> <<TRUE>>,  mqtt |-> <<>>,      ip |-> <<>>],
       [status |-> TRUE,  wifi |-> <<FALSE>>, mqtt |-> <<FALSE>>, ip |-> <<>>],
       [status |-> FALSE, wifi |-> <<TRUE>>,  mqtt |-> <<TRUE>>,  ip |-> <<Address>>] >>

FrameBytes(f) == [i \in 1..FrameLen |-> FrameByte(f, i)]

NoiseBytes(n) == [i \in 1..n |-> Noise]

\* deserializeJson(doc, json): the frame the text holds, 0 for an error.
\* The parser reads one JSON value from the start of the text.
deserializeJson(json) ==
    IF Len(json) >= FrameLen /\ json[1] # Noise
          /\ SubSeq(json, 1, FrameLen) = FrameBytes(json[1] \div UInt8)
    THEN json[1] \div UInt8
    ELSE 0

\* doc["wifi"] | false
OrFalse(field) == IF field = <<>> THEN FALSE ELSE field[1]

GwCtx(g, rx, o) == [g |-> g, rx |-> rx, obs |-> o]

GwEnter(name) == GwCtx(gateway, uart.rx, [NoObs EXCEPT !.op = name])

UARTGateway_new ==
    [ uart |-> FALSE, initialized |-> FALSE, wifi_connected |-> FALSE,
      mqtt_connected |-> FALSE, ip_address |-> <<>>,
      last_status_request |-> U32(0), rx_buffer |-> <<>> ]

\* the serial line before the companion chip has written anything
UartIdle ==
    [rx |-> <<>>, run |-> 0, open |-> FALSE, last |-> 0, fresh |-> 0, recover |-> 0]

UARTGateway_is_ready(g) == g.wifi_connected /\ g.mqtt_connected

\* init(serial): flushes the receiver and writes an empty line
UARTGateway_init(c, serial) ==
    IF ~serial THEN c
    ELSE [c EXCEPT !.g.uart = TRUE, !.rx = <<>>,
                   !.obs.lines = Append(@, [cmd |-> "", written |-> 2]),
                   !.g.initialized = TRUE,
                   !.g.last_status_request =
                       U32Add(U32Sub(now, U32(STATUS_REQUEST_INTERVAL_MS)), 2000)]

\* send_command(doc): size is what serializeJson returned, written what
\* println returned
send_command_IgnoresWritten(c, cmd, size, written) ==
    IF ~c.g.initialized \/ ~c.g.uart THEN Return(c, "false")
    ELSE IF size = 0 THEN Return(c, "false")
    ELSE Return([c EXCEPT !.obs.lines = Append(@, [cmd |-> cmd, written |-> written])],
                "true")

UARTGateway_send_command(c, cmd, size, written) ==
    IF ~c.g.initialized \/ ~c.g.uart THEN Return(c, "false")
    ELSE IF size = 0 THEN Return(c, "false")
    ELSE LET c1 == [c EXCEPT !.obs.lines =
                                 Append(@, [cmd |-> cmd, written |-> written])]
         IN  IF written = 0 THEN Return(c1, "false") ELSE Return(c1, "true")

\* publish_session(session): heap is ESP.getFreeHeap() >= 8192, serialized
\* and parsed the outcomes of building the record
UARTGateway_publish_session(c, session, heap, serialized, parsed, size, written) ==
    IF ~c.g.initialized \/ ~c.g.uart \/ session = 0 THEN Return(c, "false")
    ELSE IF ~heap THEN Return(c, "false")
    ELSE IF ~serialized THEN Return(c, "false")
    ELSE IF ~parsed THEN Return(c, "false")
    ELSE UARTGateway_send_command(c, "pub", size, written)

UARTGateway_request_status(c, size, written) ==
    IF ~c.g.initialized THEN c
    ELSE LET c1 == UARTGateway_send_command(c, "status", size, written)
         IN  IF c1.obs.ret = "true"
             THEN [c1 EXCEPT !.g.last_status_request = now]
             ELSE c1

UARTGateway_parse_response(c, json) ==
    LET f == deserializeJson(json)
        c1 == [c EXCEPT !.obs.parsed = Append(@, f)]
    IN  IF f = 0 THEN c1
        ELSE IF ~Frames[f].status THEN c1
        ELSE [c1 EXCEPT !.g.wifi_connected = OrFalse(Frames[f].wifi),
                        !.g.mqtt_connected = OrFalse(Frames[f].mqtt),
                        !.g.ip_address = IF Frames[f].ip # <<>>
                                         THEN Frames[f].ip ELSE @]

Peak(c) == [c EXCEPT !.obs.peak = IF Len(c.g.rx_buffer) > @
                                  THEN Len(c.g.rx_buffer) ELSE @]

\* one pass of the loop of handle(), for the byte read
ReadStep_NeverDiscards(c, ch) ==
    IF ch = LF
    THEN IF Len(c.g.rx_buffer) > 0
         THEN [UARTGateway_parse_response(c, c.g.rx_buffer)
                  EXCEPT !.g.rx_buffer = <<>>]
         ELSE c
    ELSE IF ch # CR
    THEN Peak([c EXCEPT !.g.rx_buffer = Append(@, ch)])
    ELSE c

ReadStep(c, ch) ==
    IF ch = LF
    THEN IF Len(c.g.rx_buffer) > 0
         THEN [UARTGateway_parse_response(c, c.g.rx_buffer)
                  EXCEPT !.g.rx_buffer = <<>>]
         ELSE c
    ELSE IF ch # CR
    THEN IF Len(c.g.rx_buffer) < MAX_RX_BUFFER_SIZE - 1
         THEN Peak([c EXCEPT !.g.rx_buffer = Append(@, ch)])
         ELSE [c EXCEPT !.g.rx_buffer = <<>>]
    ELSE c

\* the passes for the bytes lo..hi of rx, in their order.  The first half is
\* evaluated before the second is entered (initialized stays true in the
\* loop), which keeps the evaluation of 256 passes shallow.
RECURSIVE ReadLoop(_, _, _, _)
ReadLoop(c, rx, lo, hi) ==
    IF lo > hi THEN c
    ELSE IF lo = hi THEN ReadStep(c, rx[lo])
    ELSE LET mid == (lo + hi) \div 2
             c1 == ReadLoop(c, rx, lo, mid)
         IN  IF c1.g.initialized THEN ReadLoop(c1, rx, mid + 1, hi) ELSE c1

\* handle(): reads what is available, at most ReadsPerCycle bytes.  The
\* periodic status request is commented out in the source.
UARTGateway_handle(c) ==
    IF ~c.g.initialized \/ ~c.g.uart THEN c
    ELSE LET n == Min(Len(c.rx), ReadsPerCycle)
         IN  [ReadLoop(Peak(c), c.rx, 1, n) EXCEPT !.rx = SubSeq(c.rx, n + 1, Len(c.rx))]

----------------------------------------------------------------------------
(* NetworkConfigService, src/src/bluetooth/network_config_service.cpp.     *)
(* A text is a sequence of characters; positions count from 0 as in the    *)
(* source, and -1 is "not found".                                          *)

Digits == <<"0", "1", "2", "3", "4", "5", "6", "7", "8", "9">>

isdigit(ch) == \E d \in 1..Len(Digits) : Digits[d] = ch

DigitValue(ch) == (CHOOSE d \in 1..Len(Digits) : Digits[d] = ch) - 1

isspace(ch) == ch \in {" ", "\t", "\n", "\r"}

\* String::indexOf(ch)
indexOf(str, ch) ==
    IF \E i \in 1..Len(str) : str[i] = ch
    THEN (CHOOSE i \in 1..Len(str) :
              str[i] = ch /\ \A j \in 1..(i - 1) : str[j] # ch) - 1
    ELSE -1

\* String::substring(left, right): the characters left..right-1
substring(str, left, right) ==
    IF left >= Len(str) THEN <<>>
    ELSE SubSeq(str, left + 1, Min(right, Len(str)))

\* String::substring(left)
substringFrom(str, left) == substring(str, left, Len(str))

\* String::trim()
RECURSIVE trim(_)
trim(str) ==
    IF str = <<>> THEN str
    ELSE IF isspace(str[1]) THEN trim(Tail(str))
    ELSE IF isspace(str[Len(str)]) THEN trim(SubSeq(str, 1, Len(str) - 1))
    ELSE str

\* the value of the digits at the start of str, after the value acc
RECURSIVE LeadingDigits(_, _)
LeadingDigits(str, acc) ==
    IF str = <<>> \/ ~isdigit(str[1]) THEN acc
    ELSE LeadingDigits(Tail(str), acc * Len(Digits) + DigitValue(str[1]))

\* String::toInt() (atol): white space, an optional sign, then digits; 0
\* where there are none
RECURSIVE toInt(_)
toInt(str) ==
    IF str = <<>> THEN 0
    ELSE IF isspace(str[1]) THEN toInt(Tail(str))
    ELSE IF str[1] = "-" THEN 0 - LeadingDigits(Tail(str), 0)
    ELSE IF str[1] = "+" THEN LeadingDigits(Tail(str), 0)
    ELSE LeadingDigits(str, 0)

\* conversion of a long to uint16_t
UInt16(n) == n % Half

\* the decimal text of a number
RECURSIVE Decimal(_)
Decimal(n) ==
    IF n < 0 THEN <<"-">> \o Decimal(0 - n)
    ELSE IF n < Len(Digits) THEN <<Digits[n + 1]>>
    ELSE Decimal(n \div Len(Digits)) \o <<Digits[(n % Len(Digits)) + 1]>>

NetworkConfigService_new == [wifi_manager |-> FALSE, mqtt_manager |-> FALSE]

NetworkConfigService_init(s, wifi_ptr, mqtt_ptr) ==
    [wifi_manager |-> wifi_ptr, mqtt_manager |-> mqtt_ptr]

\* parse_mqtt_config(input, broker, port, username, password): the result
\* and the four outputs
Unparsed == [ok |-> FALSE, broker |-> <<>>, port |-> 0, username |-> <<>>,
             password |-> <<>>]

parse_mqtt_config_DropsRemainder(input) ==
    LET separator == indexOf(input, "|")
        broker_part == substring(input, 0, separator)
        colon == indexOf(broker_part, ":")
        port == UInt16(toInt(substringFrom(broker_part, colon + 1)))
        creds_part == substringFrom(input, separator + 1)
        creds_separator == indexOf(creds_part, "|")
        broker == trim(substring(broker_part, 0, colon))
    IN  IF separator <= 0 THEN Unparsed
        ELSE IF colon <= 0 THEN Unparsed
        ELSE IF port = 0 THEN Unparsed
        ELSE IF broker = <<>> THEN Unparsed
        ELSE [ok |-> TRUE, broker |-> broker, port |-> port,
              username |-> IF creds_separator >= 0
                           THEN trim(substring(creds_part, 0, creds_separator))
                           ELSE <<>>,
              password |-> IF creds_separator >= 0
                           THEN trim(substringFrom(creds_part, creds_separator + 1))
                           ELSE <<>>]

parse_mqtt_config(input) ==
    LET separator == indexOf(input, "|")
        broker_part == substring(input, 0, separator)
        colon == indexOf(broker_part, ":")
        port == UInt16(toInt(substringFrom(broker_part, colon + 1)))
        creds_part == substringFrom(input, separator + 1)
        creds_separator == indexOf(creds_part, "|")
        broker == trim(substring(broker_part, 0, colon))
    IN  IF separator <= 0 THEN Unparsed
        ELSE IF colon <= 0 THEN Unparsed
        ELSE IF port = 0 THEN Unparsed
        ELSE IF broker = <<>> THEN Unparsed
        ELSE [ok |-> TRUE, broker |-> broker, port |-> port,
              username |-> IF creds_separator >= 0
                           THEN trim(substring(creds_part, 0, creds_separator))
                           ELSE trim(creds_part),
              password |-> IF creds_separator >= 0
                           THEN trim(substringFrom(creds_part, creds_separator + 1))
                           ELSE <<>>]

\* handle_mqtt_config_write(data, length): data is the text written (NullStr
\* for a null pointer), fits is length <= BLE_NETWORK_MAX_PAYLOAD_BYTES
NetworkConfigService_handle_mqtt_config_write(c, s, data, fits) ==
    IF ~s.mqtt_manager THEN Return(c, "false")
    ELSE IF data = NullStr \/ Len(data) = 0 \/ ~fits THEN Return(c, "false")
    ELSE LET p == parse_mqtt_config(data)
         IN  IF ~p.ok THEN Return(c, "false")
             ELSE MQTTManager_set_broker_config(c, p.broker, p.port,
                                                p.username, p.password)

----------------------------------------------------------------------------
(* The companion chip, src/gateway-esp32c6/src/main.cpp.  companion holds  *)
(* its globals, the keys of its Preferences, what WiFi.status() and        *)
(* mqttClient.connected() report, and the flags of the status frame it     *)
(* sent last (both false before the first).  A context is [k, obs].        *)

RECONNECT_INTERVAL_MS == 5000

Companion_new ==
    [ booted |-> FALSE,
      prefs |-> [wifi_ssid |-> <<>>, mqtt_broker |-> <<>>],
      wifiSSID |-> <<>>, mqttBroker |-> <<>>,
      lastReconnectAttempt |-> U32(0),
      wifiConnected |-> FALSE, mqttConnected |-> FALSE,
      wl |-> FALSE, client |-> FALSE,
      reported |-> <<FALSE, FALSE>> ]

\* the arguments of the configuration commands
NewSsid == <<"n">>
NewBroker == <<"b">>

CompanionEnter(name) == [k |-> companion, obs |-> [NoObs EXCEPT !.op = name]]

\* setup(): loadConfig()
Companion_setup(c) ==
    [c EXCEPT !.k.booted = TRUE,
              !.k.wifiSSID = c.k.prefs.wifi_ssid,
              !.k.mqttBroker = c.k.prefs.mqtt_broker]

Companion_sendStatus(c) ==
    [c EXCEPT !.obs.status_frames =
                  Append(@, [status |-> TRUE, wifi |-> <<c.k.wifiConnected>>,
                             mqtt |-> <<c.k.mqttConnected>>,
                             ip |-> IF c.k.wifiConnected THEN <<Address>> ELSE <<>>]),
              !.k.reported = <<c.k.wifiConnected, c.k.mqttConnected>>]

\* connectWiFi(): joined is what WiFi.status() reports at the end of the wait
Companion_connectWiFi(c, joined) ==
    IF c.k.wifiSSID = <<>> THEN c ELSE [c EXCEPT !.k.wl = joined]

\* connectMQTT(): accept is what mqttClient.connect() returns
Companion_connectMQTT(c, accept) ==
    IF c.k.mqttBroker = <<>> \/ ~c.k.wifiConnected THEN c
    ELSE [c EXCEPT !.k.client = accept]

\* publishSession(): mqttClient.publish(), with the flags at that moment
Companion_publishSession(c) ==
    [c EXCEPT !.obs.forwarded =
                  Append(@, [wifi |-> c.k.wifiConnected, mqtt |-> c.k.mqttConnected])]

\* handleSerialConfig(): command is "wifi" or "mqtt" with valid arguments,
\* "reset", or a command that changes nothing
Companion_handleSerialConfig(c, command, joined, accept) ==
    IF command = "wifi"
    THEN Companion_connectWiFi(
             [c EXCEPT !.k.prefs.wifi_ssid = NewSsid, !.k.wifiSSID = NewSsid,
                       !.k.wl = FALSE], joined)
    ELSE IF command = "mqtt"
    THEN Companion_connectMQTT(
             [c EXCEPT !.k.prefs.mqtt_broker = NewBroker, !.k.mqttBroker = NewBroker,
                       !.k.client = FALSE], accept)
    ELSE IF command = "reset"
    THEN [c EXCEPT !.k = [Companion_new EXCEPT !.reported = c.k.reported]]
    ELSE c

\* handleUartData(): line is "pub" (a publish command with its record),
\* "pub_nodata", "status", or a line that is no command
Companion_handleUartData(c, line) ==
    IF line = "pub"
    THEN IF c.k.mqttConnected THEN Companion_publishSession(c) ELSE c
    ELSE IF line = "status" THEN Companion_sendStatus(c)
    ELSE c

\* loop(), "Maintain WiFi connection"
Companion_maintainWiFi(c, joined) ==
    IF c.k.wifiSSID = <<>> THEN c
    ELSE IF ~c.k.wl
    THEN IF ~c.k.wifiConnected
            \/ U32Greater(Elapsed(c.k.lastReconnectAttempt), RECONNECT_INTERVAL_MS)
         THEN [Companion_connectWiFi([c EXCEPT !.k.wifiConnected = FALSE], joined)
                  EXCEPT !.k.lastReconnectAttempt = now]
         ELSE c
    ELSE IF ~c.k.wifiConnected
    THEN Companion_sendStatus([c EXCEPT !.k.wifiConnected = TRUE])
    ELSE c

\* loop(), "Maintain MQTT connection"
Companion_maintainMQTT(c, accept) ==
    IF ~(c.k.wifiConnected /\ c.k.mqttBroker # <<>>) THEN c
    ELSE IF ~c.k.client
    THEN IF ~c.k.mqttConnected
            \/ U32Greater(Elapsed(c.k.lastReconnectAttempt), RECONNECT_INTERVAL_MS)
         THEN [Companion_connectMQTT([c EXCEPT !.k.mqttConnected = FALSE], accept)
                  EXCEPT !.k.lastReconnectAttempt = now]
         ELSE c
    ELSE IF ~c.k.mqttConnected
    THEN Companion_sendStatus([c EXCEPT !.k.mqttConnected = TRUE])
    ELSE c

\* loop(): command and line are what is waiting on the two serial ports ("" for
\* nothing)
Companion_loop(c, command, line, joined, accept) ==
    LET c1 == IF command # ""
              THEN Companion_handleSerialConfig(c, command, joined, accept) ELSE c
        c2 == IF ~c1.k.booted THEN c1
              ELSE IF line # "" THEN Companion_handleUartData(c1, line) ELSE c1
        c3 == IF ~c2.k.booted THEN c2 ELSE Companion_maintainWiFi(c2, joined)
    IN  IF ~c3.k.booted THEN c3 ELSE Companion_maintainMQTT(c3, accept)

----------------------------------------------------------------------------
(* Inputs                                                                  *)

\* outcome of one publish(): payload fits the client buffer, client accepts it
Outcomes == [fits : BOOLEAN, client_ok : BOOLEAN]

\* outcomes of the sends of one drain cycle
DrainOutcomes == [1..max_per_cycle -> Outcomes]

Host == <<"h">>

\* arguments of set_broker_config: one valid configuration, one without a host
BrokerInputs == { <<Host, MQTT_DEFAULT_PORT, <<>>, <<>>>>,
                  <<<<>>, MQTT_DEFAULT_PORT, <<>>, <<>>>> }

\* what an earlier boot can have left in the store
NvsConfigured(en) ==
    [NvsEmpty EXCEPT !["mqtt_enabled"] = <<en>>, !["mqtt_broker"] = <<Host>>,
                     !["mqtt_port"] = <<MQTT_DEFAULT_PORT>>,
                     !["mqtt_username"] = <<<<>>>>, !["mqtt_password"] = <<<<>>>>]

InitialStores == {NvsEmpty, NvsConfigured(TRUE), NvsConfigured(FALSE)}

\* the clock advances in steps of the longest reconnect interval
ClockStep == MQTT_MAX_RECONNECT_INTERVAL_MS

----------------------------------------------------------------------------
(* Actions                                                                 *)

Commit(c) ==
    LET after == c
    IN  /\ mqtt' = after.m
        /\ nvs' = after.nvs
        /\ obs' = after.obs

\* the object as constructed, whatever callbacks have been registered since
AsConstructed ==
    [mqtt EXCEPT !.status_callback = FALSE, !.publish_callback = FALSE] = MQTTManager_new

MQTT_Init(prefs) ==
    /\ AsConstructed
    /\ Commit(MQTTManager_init(Enter("init"), prefs))
    /\ streak' = 0
    /\ UNCHANGED <<wl_connected, now, wifi, wifi_nvs, gateway, uart, service, companion>>

MQTT_Enable(accept) ==
    /\ Commit(MQTTManager_enable(Enter("enable"), accept))
    /\ streak' = 0
    /\ UNCHANGED <<wl_connected, now, wifi, wifi_nvs, gateway, uart, service, companion>>

MQTT_Disable ==
    /\ Commit(MQTTManager_disable(Enter("disable")))
    /\ streak' = 0
    /\ UNCHANGED <<wl_connected, now, wifi, wifi_nvs, gateway, uart, service, companion>>

MQTT_Handle(accept, outs) ==
    /\ LET e == Enter("handle")
       IN  Commit(MQTTManager_handle([e EXCEPT !.obs.streak = streak], accept, outs))
    /\ streak' = 0
    /\ UNCHANGED <<wl_connected, now, wifi, wifi_nvs, gateway, uart, service, companion>>

MQTT_SetBrokerConfig(a) ==
    /\ Commit(MQTTManager_set_broker_config(Enter("set_broker_config"),
                                            a[1], a[2], a[3], a[4]))
    /\ streak' = 0
    /\ UNCHANGED <<wl_connected, now, wifi, wifi_nvs, gateway, uart, service, companion>>

MQTT_ClearBrokerConfig ==
    /\ Commit(MQTTManager_clear_broker_config(Enter("clear_broker_config")))
    /\ streak' = 0
    /\ UNCHANGED <<wl_connected, now, wifi, wifi_nvs, gateway, uart, service, companion>>

MQTT_TestConnection(client_ok) ==
    /\ Commit(MQTTManager_test_connection(Enter("test_connection"), client_ok))
    /\ streak' = 0
    /\ UNCHANGED <<wl_connected, now, wifi, wifi_nvs, gateway, uart, service, companion>>

MQTT_SetPublishCallback(callback) ==
    /\ mqtt.publish_callback # callback
    /\ Commit(MQTTManager_set_publish_callback(Enter("set_publish_callback"), callback))
    /\ UNCHANGED <<wl_connected, now, streak, wifi, wifi_nvs, gateway, uart, service, companion>>

MQTT_SetStatusCallback(callback) ==
    /\ mqtt.status_callback # callback
    /\ Commit(MQTTManager_set_status_callback(Enter("set_status_callback"), callback))
    /\ UNCHANGED <<wl_connected, now, streak, wifi, wifi_nvs, gateway, uart, service, companion>>

\* a publish by a connected manager whose immediate send failed, the first of
\* the run on an empty queue, extends the run; runs longer than one drain cycle
\* are not told apart
StreakAfter(c) ==
    IF /\ mqtt.status = CONNECTED
       /\ Len(c.obs.sends) = 1
       /\ ~c.obs.sends[1].ok
       /\ (streak > 0 \/ mqtt.publish_queue = <<>>)
    THEN Min(streak + 1, max_per_cycle + 1)
    ELSE 0

MQTT_PublishSession(session, ser_ok, fits, client_ok) ==
    /\ LET e == Enter("publish_session")
           c == MQTTManager_publish_session([e EXCEPT !.obs.call = <<session, ser_ok>>],
                                            session, ser_ok, fits, client_ok)
       IN  /\ Commit(c)
           /\ streak' = StreakAfter(c)
    /\ UNCHANGED <<wl_connected, now, wifi, wifi_nvs, gateway, uart, service, companion>>

\* environment: time passes
AdvanceClock(d) ==
    /\ now' = U32Add(now, d)
    /\ obs' = [NoObs EXCEPT !.op = "env"]
    /\ UNCHANGED <<mqtt, nvs, wl_connected, streak, wifi, wifi_nvs, gateway, uart, service, companion>>

\* environment: the radio link comes up or goes down
WifiChange ==
    /\ wl_connected' = ~wl_connected
    /\ obs' = [NoObs EXCEPT !.op = "env"]
    /\ UNCHANGED <<mqtt, nvs, now, streak, wifi, wifi_nvs, gateway, uart, service, companion>>

\* environment: the broker connection is lost (mqtt_client.connected() turns false)
BrokerDrop ==
    /\ mqtt.mqtt_client.connected
    /\ mqtt' = [mqtt EXCEPT !.mqtt_client.connected = FALSE]
    /\ obs' = [NoObs EXCEPT !.op = "env"]
    /\ UNCHANGED <<nvs, wl_connected, now, streak, wifi, wifi_nvs, gateway, uart, service, companion>>

WifiCommit(c) ==
    /\ wifi' = c.w
    /\ wifi_nvs' = c.nvs
    /\ obs' = c.obs
    /\ wl_connected' = c.wl

WIFI_Init(prefs) ==
    /\ [wifi EXCEPT !.status_callback = FALSE] = WiFiManager_new
    /\ WifiCommit(WiFiManager_init(WifiEnter("wifi_init"), prefs))
    /\ UNCHANGED <<mqtt, nvs, now, streak, gateway, uart, service, companion>>

WIFI_Enable ==
    /\ WifiCommit(WiFiManager_enable(WifiEnter("wifi_enable")))
    /\ UNCHANGED <<mqtt, nvs, now, streak, gateway, uart, service, companion>>

WIFI_Disable ==
    /\ WifiCommit(WiFiManager_disable(WifiEnter("wifi_disable")))
    /\ UNCHANGED <<mqtt, nvs, now, streak, gateway, uart, service, companion>>

WIFI_Handle ==
    /\ WifiCommit(WiFiManager_handle(WifiEnter("wifi_handle")))
    /\ UNCHANGED <<mqtt, nvs, now, streak, gateway, uart, service, companion>>

WIFI_SetCredentials(a) ==
    /\ WifiCommit(WiFiManager_set_credentials(WifiEnter("wifi_set_credentials"), a[1], a[2]))
    /\ UNCHANGED <<mqtt, nvs, now, streak, gateway, uart, service, companion>>

WIFI_ClearCredentials ==
    /\ WifiCommit(WiFiManager_clear_credentials(WifiEnter("wifi_clear_credentials")))
    /\ UNCHANGED <<mqtt, nvs, now, streak, gateway, uart, service, companion>>

WIFI_SetStatusCallback(callback) ==
    /\ wifi.status_callback # callback
    /\ WifiCommit(WiFiManager_set_status_callback(WifiEnter("wifi_set_status_callback"),
                                                  callback))
    /\ UNCHANGED <<mqtt, nvs, now, streak, gateway, uart, service, companion>>

----------------------------------------------------------------------------
(* Specifications of the broker manager with its retry queue.              *)
(*                                                                         *)
(* Spec fills the queue to its capacity, lets few retries fail and makes   *)
(* its calls within one reconnect interval; SpecRetry keeps the queue      *)
(* short, lets every retry fail and lets the clock advance.  In both the   *)
(* caller registers its publish observer before it makes any other call.   *)

\* the failed retries carried by the entries of a queue
RECURSIVE RetryLoad(_)
RetryLoad(q) == IF q = <<>> THEN 0 ELSE Head(q).retry_count + RetryLoad(Tail(q))

SendOk == [fits |-> TRUE, client_ok |-> TRUE]
SendRefused == [fits |-> TRUE, client_ok |-> FALSE]
SendTooLarge == [fits |-> FALSE, client_ok |-> FALSE]

AllSendsOk == [i \in 1..max_per_cycle |-> SendOk]

\* handle() reads the send outcomes only when it drains the queue, and the
\* outcome of a connection attempt only when it does not
Draining ==
    /\ mqtt.enabled /\ wl_connected /\ mqtt.mqtt_client.connected
    /\ mqtt.status \in {CONNECTING, CONNECTED}
    /\ mqtt.publish_queue # <<>>

HandleInputs ==
    IF Draining
    THEN {FALSE} \X [1..max_per_cycle -> {SendOk, SendRefused, SendTooLarge}]
    ELSE BOOLEAN \X {AllSendsOk}

\* null session; session that does not serialise; session with each send outcome
PublishInputs ==
    { [null |-> TRUE, ser_ok |-> TRUE, out |-> SendOk],
      [null |-> FALSE, ser_ok |-> FALSE, out |-> SendOk],
      [null |-> FALSE, ser_ok |-> TRUE, out |-> SendOk],
      [null |-> FALSE, ser_ok |-> TRUE, out |-> SendRefused],
      [null |-> FALSE, ser_ok |-> TRUE, out |-> SendTooLarge] }

Init ==
    /\ mqtt = MQTTManager_new
    /\ nvs = NvsConfigured(TRUE)
    /\ wl_connected = TRUE
    /\ now = U32(0)
    /\ obs = NoObs
    /\ streak = 0
    /\ wifi = WiFiManager_new
    /\ wifi_nvs = WifiNvsEmpty
    /\ gateway = UARTGateway_new
    /\ uart = UartIdle
    /\ service = NetworkConfigService_new
    /\ companion = Companion_new

\* the clock has advanced less than MaxClockSteps times since start
ClockBudget(start) == U32Less(U32Sub(now, start), MaxClockSteps * ClockStep)

Tick ==
    /\ ClockBudget(U32(0))
    /\ AdvanceClock(ClockStep)

Registered == mqtt.publish_callback

Initialise == Registered /\ MQTT_Init(TRUE)

Disable == Registered /\ MQTT_Disable

ClearBrokerConfig == Registered /\ MQTT_ClearBrokerConfig

\* the provisioning service, the one caller of set_broker_config, is given the
\* manager after its init()
SetBrokerConfig ==
    \E a \in BrokerInputs :
        /\ Registered
        /\ mqtt.preferences
        /\ MQTT_SetBrokerConfig(a)

Enable ==
    \E accept \in BOOLEAN :
        /\ Registered
        /\ MQTT_Enable(accept)
        /\ accept => obs'.connects # <<>>

\* an input that the call did not read is given its first value only
HandleWithin(load) ==
    \E in \in HandleInputs :
        /\ Registered
        /\ MQTT_Handle(in[1], in[2])
        /\ in[1] => obs'.connects # <<>>
        /\ \A i \in 1..max_per_cycle : i > Len(obs'.sends) => in[2][i] = SendOk
        /\ RetryLoad(mqtt'.publish_queue) <= load

\* session ids are the caller's: a new session gets the id after the largest
\* one pending, so that the pending entries can be told apart
RECURSIVE MaxTopic(_)
MaxTopic(q) ==
    IF q = <<>> THEN 0
    ELSE LET t == MaxTopic(Tail(q)) IN IF Head(q).topic > t THEN Head(q).topic ELSE t

NextSession == MaxTopic(mqtt.publish_queue) + 1

PublishUpTo(last) ==
    \E in \in PublishInputs :
        /\ Registered
        /\ NextSession <= last
        /\ MQTT_PublishSession(IF in.null THEN NullSession ELSE NextSession,
                               in.ser_ok, in.out.fits, in.out.client_ok)
        /\ in.out # SendOk => obs'.sends # <<>>

Handle == HandleWithin(MaxRetryLoad)

PublishSession == PublishUpTo(MaxSessionId)

Next ==
    \/ MQTT_SetPublishCallback(TRUE)
    \/ Initialise
    \/ Enable
    \/ Disable
    \/ Handle
    \/ SetBrokerConfig
    \/ ClearBrokerConfig
    \/ PublishSession
    \/ WifiChange
    \/ BrokerDrop

Spec == Init /\ [][Next]_vars

\* every entry of a full queue can carry two failed retries
AnyLoad == MQTT_MAX_FAILED_PUBLISH_QUEUE * max_retry_count

HandleRetry == HandleWithin(AnyLoad)

PublishRetry == PublishUpTo(RetrySessionId)

NextRetry ==
    \/ MQTT_SetPublishCallback(TRUE)
    \/ Initialise
    \/ Enable
    \/ Disable
    \/ HandleRetry
    \/ ClearBrokerConfig
    \/ PublishRetry
    \/ Tick
    \/ WifiChange
    \/ BrokerDrop

SpecRetry == Init /\ [][NextRetry]_vars

----------------------------------------------------------------------------
(* Specification of the connection state machines of the two managers.     *)
(*                                                                         *)
(* The managers do not call each other.  The link manager reads and        *)
(* writes nothing of the broker manager; the broker manager reads of the   *)
(* link only what the radio reports (WiFi.status()).  A behaviour of       *)
(* SpecManagers therefore operates one of them: the link manager with the  *)
(* radio it starts and stops, or the broker manager with a radio that      *)
(* comes and goes as it likes.  Each is initialised from what an earlier   *)
(* boot left in the store, is polled while the clock advances, and has its *)
(* status observer registered before any other call.  Nothing is           *)
(* published, so the retry queue stays empty.                              *)

Ssid == <<"s">>
Passphrase == <<"p">>

\* arguments of set_credentials: one valid pair, one without a network name
WifiInputs == { <<Ssid, Passphrase>>, <<<<>>, Passphrase>> }

WifiNvsConfigured(en) ==
    [WifiNvsEmpty EXCEPT !["wifi_enabled"] = <<en>>, !["wifi_ssid"] = <<Ssid>>,
                         !["wifi_password"] = <<Passphrase>>]

WifiInitialStores == {WifiNvsEmpty, WifiNvsConfigured(TRUE), WifiNvsConfigured(FALSE)}

InitManagers ==
    /\ mqtt = MQTTManager_new
    /\ nvs \in InitialStores
    /\ wl_connected = FALSE
    /\ now = U32(0)
    /\ obs = NoObs
    /\ streak = 0
    /\ wifi = WiFiManager_new
    /\ wifi_nvs \in WifiInitialStores
    /\ gateway = UARTGateway_new
    /\ uart = UartIdle
    /\ service = NetworkConfigService_new
    /\ companion = Companion_new

\* the behaviour operates the link manager, the broker manager
Link == wifi.status_callback /\ mqtt = MQTTManager_new
Broker == mqtt.status_callback /\ wifi = WiFiManager_new

\* the clock advances in steps after which a connection attempt has timed out
ManagerClockStep == WIFI_CONNECTION_TIMEOUT_MS + 1

Tock ==
    /\ Link \/ Broker
    /\ U32Less(now, MaxBackoffSteps * ManagerClockStep)
    /\ AdvanceClock(ManagerClockStep)

\* the radio reports a connection to the link manager only while that has it
\* started
RadioChange ==
    /\ Broker \/ (Link /\ (wl_connected \/ (wifi.enabled /\ wifi.status # DISABLED)))
    /\ WifiChange

LinkObserve == mqtt = MQTTManager_new /\ WIFI_SetStatusCallback(TRUE)

LinkInit == Link /\ WIFI_Init(TRUE)

LinkEnable == Link /\ wifi.preferences /\ WIFI_Enable

LinkDisable == Link /\ wifi.preferences /\ WIFI_Disable

LinkHandle == Link /\ wifi.preferences /\ WIFI_Handle

LinkSetCredentials ==
    \E a \in WifiInputs : Link /\ wifi.preferences /\ WIFI_SetCredentials(a)

LinkClearCredentials == Link /\ wifi.preferences /\ WIFI_ClearCredentials

BrokerObserve == wifi = WiFiManager_new /\ MQTT_SetStatusCallback(TRUE)

BrokerInit == Broker /\ MQTT_Init(TRUE)

BrokerEnable ==
    \E accept \in BOOLEAN :
        /\ Broker /\ mqtt.preferences
        /\ MQTT_Enable(accept)
        /\ accept => obs'.connects # <<>>

BrokerDisable == Broker /\ mqtt.preferences /\ MQTT_Disable

BrokerHandle ==
    \E accept \in BOOLEAN :
        /\ Broker /\ mqtt.preferences
        /\ MQTT_Handle(accept, AllSendsOk)
        /\ accept => obs'.connects # <<>>

BrokerSetConfig ==
    \E a \in BrokerInputs : Broker /\ mqtt.preferences /\ MQTT_SetBrokerConfig(a)

BrokerClearConfig == Broker /\ mqtt.preferences /\ MQTT_ClearBrokerConfig

BrokerLost == Broker /\ BrokerDrop

NextManagers ==
    \/ LinkObserve
    \/ LinkInit
    \/ LinkEnable
    \/ LinkDisable
    \/ LinkHandle
    \/ LinkSetCredentials
    \/ LinkClearCredentials
    \/ BrokerObserve
    \/ BrokerInit
    \/ BrokerEnable
    \/ BrokerDisable
    \/ BrokerHandle
    \/ BrokerSetConfig
    \/ BrokerClearConfig
    \/ BrokerLost
    \/ Tock
    \/ RadioChange

SpecManagers == InitManagers /\ [][NextManagers]_vars

----------------------------------------------------------------------------
(* Specification of the two managers on a clock that wraps around.  It is  *)
(* SpecManagers without the setters, started 10001 ms before millis()      *)
(* returns to 0, on a clock that advances in steps of half the base        *)
(* reconnect interval: the waits end exactly on an interval, and the       *)
(* connection timeout is exceeded by one step.  The clock never reads 0.   *)

WrapClockStep == MQTT_RECONNECT_INTERVAL_MS \div 2

WrapStart == U32Sub(U32(0), U32(4 * WrapClockStep + 1))

InitWrap ==
    /\ mqtt = MQTTManager_new
    /\ nvs \in InitialStores
    /\ wl_connected = FALSE
    /\ now = WrapStart
    /\ obs = NoObs
    /\ streak = 0
    /\ wifi = WiFiManager_new
    /\ wifi_nvs \in WifiInitialStores
    /\ gateway = UARTGateway_new
    /\ uart = UartIdle
    /\ service = NetworkConfigService_new
    /\ companion = Companion_new

WrapTock ==
    /\ Link \/ Broker
    /\ U32Less(U32Sub(now, WrapStart), MaxWrapSteps * WrapClockStep)
    /\ AdvanceClock(WrapClockStep)

NextWrap ==
    \/ LinkObserve
    \/ LinkInit
    \/ LinkEnable
    \/ LinkHandle
    \/ BrokerObserve
    \/ BrokerInit
    \/ BrokerEnable
    \/ BrokerHandle
    \/ BrokerLost
    \/ WrapTock
    \/ RadioChange

SpecWrap == InitWrap /\ [][NextWrap]_vars

----------------------------------------------------------------------------
(* Specification of the validated setters.  As in SpecManagers a behaviour *)
(* operates one of the two managers, here without the clock: every status  *)
(* is reached without it.  The setters are called with arguments at and    *)
(* beyond every limit that they test, and the arguments are kept among the *)
(* observations.  The broker manager is given one record to publish, so    *)
(* that its queue is not always empty.                                     *)

\* a string of n characters
Str(n) == [i \in 1..n |-> "x"]

\* arguments of set_credentials: valid, of the greatest lengths, empty, null,
\* and one character too long
CredentialInputs ==
    { <<Ssid, Passphrase>>,
      <<Str(WIFI_MAX_SSID_LENGTH), Str(WIFI_MAX_PASSWORD_LENGTH)>>,
      <<<<>>, Passphrase>>, <<Ssid, <<>>>>,
      <<NullStr, Passphrase>>, <<Ssid, NullStr>>,
      <<Str(WIFI_MAX_SSID_LENGTH + 1), Passphrase>>,
      <<Ssid, Str(WIFI_MAX_PASSWORD_LENGTH + 1)>> }

\* arguments of set_broker_config: valid without and with a login of the
\* greatest lengths, no host, port 0, and host, username, password one character
\* too long
ConfigInputs ==
    { <<Host, MQTT_DEFAULT_PORT, NullStr, NullStr>>,
      <<Str(MQTT_MAX_BROKER_LENGTH), Half - 1,
        Str(MQTT_MAX_USERNAME_LENGTH), Str(MQTT_MAX_PASSWORD_LENGTH)>>,
      <<<<>>, MQTT_DEFAULT_PORT, <<>>, <<>>>>,
      <<NullStr, MQTT_DEFAULT_PORT, <<>>, <<>>>>,
      <<Host, 0, <<>>, <<>>>>,
      <<Str(MQTT_MAX_BROKER_LENGTH + 1), MQTT_DEFAULT_PORT, <<>>, <<>>>>,
      <<Host, MQTT_DEFAULT_PORT, Str(MQTT_MAX_USERNAME_LENGTH + 1), <<>>>>,
      <<Host, MQTT_DEFAULT_PORT, <<>>, Str(MQTT_MAX_PASSWORD_LENGTH + 1)>> }

SetCredentials ==
    \E a \in CredentialInputs :
        /\ Link /\ wifi.preferences
        /\ LET e == WifiEnter("wifi_set_credentials")
           IN  WifiCommit(WiFiManager_set_credentials([e EXCEPT !.obs.call = a], a[1], a[2]))
        /\ UNCHANGED <<mqtt, nvs, now, streak, gateway, uart, service, companion>>

SetConfig ==
    \E a \in ConfigInputs :
        /\ Broker /\ mqtt.preferences
        /\ LET e == Enter("set_broker_config")
           IN  Commit(MQTTManager_set_broker_config([e EXCEPT !.obs.call = a],
                                                    a[1], a[2], a[3], a[4]))
        /\ streak' = 0
        /\ UNCHANGED <<wl_connected, now, wifi, wifi_nvs, gateway, uart, service, companion>>

\* one record is published and queued when its immediate send is refused
PublishOne ==
    /\ Broker /\ mqtt.preferences
    /\ mqtt.publish_queue = <<>>
    /\ MQTT_PublishSession(1, TRUE, TRUE, FALSE)

NextSetters ==
    \/ LinkObserve
    \/ LinkInit
    \/ LinkEnable
    \/ LinkDisable
    \/ LinkHandle
    \/ SetCredentials
    \/ LinkClearCredentials
    \/ BrokerObserve
    \/ BrokerInit
    \/ BrokerEnable
    \/ BrokerDisable
    \/ BrokerHandle
    \/ SetConfig
    \/ BrokerClearConfig
    \/ BrokerLost
    \/ PublishOne
    \/ RadioChange

SpecSetters == InitManagers /\ [][NextSetters]_vars

----------------------------------------------------------------------------
(* Specification of the broker manager polled for ever at a broker that    *)
(* accepts every connection and never drops one.  The network task calls   *)
(* handle() in a loop, so handle() is taken again and again (weak          *)
(* fairness) and at least once between two advances of the clock; the      *)
(* clock advances whatever calls are made in between (strong fairness) and *)
(* wraps after four advances.  The radio link comes and goes.              *)

LiveClockStep == Half * (Half \div 4)

InitLive ==
    /\ mqtt = MQTTManager_new
    /\ nvs \in InitialStores
    /\ wl_connected = FALSE
    /\ now = U32(0)
    /\ obs = NoObs
    /\ streak = 0
    /\ wifi = WiFiManager_new
    /\ wifi_nvs = WifiNvsEmpty
    /\ gateway = UARTGateway_new
    /\ uart = UartIdle
    /\ service = NetworkConfigService_new
    /\ companion = Companion_new

LiveInit == MQTT_Init(TRUE)

LiveEnable == mqtt.preferences /\ MQTT_Enable(TRUE)

LiveDisable == mqtt.preferences /\ MQTT_Disable

LiveHandle == mqtt.preferences /\ MQTT_Handle(TRUE, AllSendsOk)

LiveTock == obs.op = "handle" /\ AdvanceClock(LiveClockStep)

NextLive ==
    \/ LiveInit
    \/ LiveEnable
    \/ LiveDisable
    \/ LiveHandle
    \/ LiveTock
    \/ WifiChange

SpecLive ==
    InitLive /\ [][NextLive]_vars /\ WF_vars(LiveHandle) /\ SF_vars(LiveTock)

----------------------------------------------------------------------------
(* Specification of the start-up scenario, with both managers.  An earlier *)
(* boot has left the link credentials with the link switched off, and the  *)
(* broker configuration with the broker switched on.  Both managers are    *)
(* initialised from the store, the caller enables the link once, the radio *)
(* connects while the attempt is pending and stays connected, the broker   *)
(* accepts the connection.  The network task polls for ever, the link      *)
(* manager and then the broker manager, once in every polling period (weak *)
(* fairness on either handle(), strong fairness on the clock, which        *)
(* advances after a round of polls); the radio answers (weak fairness).    *)
(* The clock stays below the connection timeout.                           *)

InitScenario ==
    /\ mqtt = MQTTManager_new
    /\ nvs = NvsConfigured(TRUE)
    /\ wl_connected = FALSE
    /\ now = U32(0)
    /\ obs = NoObs
    /\ streak = 0
    /\ wifi = WiFiManager_new
    /\ wifi_nvs = WifiNvsConfigured(FALSE)
    /\ gateway = UARTGateway_new
    /\ uart = UartIdle
    /\ service = NetworkConfigService_new
    /\ companion = Companion_new

ScenarioLinkInit == WIFI_Init(TRUE)

ScenarioBrokerInit == MQTT_Init(TRUE)

\* the scenario's one call of enable(), on the link, with both managers initialised
ScenarioEnable ==
    /\ wifi.preferences /\ mqtt.preferences
    /\ ~wifi.enabled
    /\ WIFI_Enable

\* the radio completes the pending attempt
ScenarioRadioUp ==
    /\ wifi.status = CONNECTING
    /\ ~wl_connected
    /\ WifiChange

ScenarioLinkTick == wifi.preferences /\ WIFI_Handle

ScenarioBrokerTick ==
    /\ mqtt.preferences
    /\ obs.op = "wifi_handle"
    /\ MQTT_Handle(TRUE, AllSendsOk)

ScenarioTock ==
    /\ obs.op = "handle"
    /\ U32Less(now, MaxScenarioSteps * SYS_TASK_NETWORK_INTERVAL_MS)
    /\ AdvanceClock(SYS_TASK_NETWORK_INTERVAL_MS)

NextScenario ==
    \/ ScenarioLinkInit
    \/ ScenarioBrokerInit
    \/ ScenarioEnable
    \/ ScenarioRadioUp
    \/ ScenarioLinkTick
    \/ ScenarioBrokerTick
    \/ ScenarioTock

SpecScenario ==
    /\ InitScenario /\ [][NextScenario]_vars
    /\ WF_vars(ScenarioLinkTick) /\ WF_vars(ScenarioBrokerTick)
    /\ WF_vars(ScenarioRadioUp) /\ SF_vars(ScenarioTock)

----------------------------------------------------------------------------
(* Specification of the relay bridge.  The companion chip writes frames,   *)
(* each closed by "\r\n", lines that are no JSON, and runs of LongRun      *)
(* bytes without a terminator, which start at the beginning of a line and  *)
(* reach the receiver in pieces of at most ReadsPerCycle bytes.  uart is   *)
(* [rx, run, open, last, fresh, recover]: the bytes waiting in the         *)
(* receiver, the bytes of the run still to come, whether the line written  *)
(* last is still without its terminator, the status frame written last (0  *)
(* for none), and the frame just written, if any, as fresh where it began  *)
(* a line and as recover where it followed a run (0 otherwise).            *)

GwCommit(c) ==
    /\ gateway' = c.g
    /\ uart' = [uart EXCEPT !.rx = c.rx]
    /\ obs' = c.obs
    /\ UNCHANGED <<mqtt, nvs, wl_connected, now, streak, wifi, wifi_nvs, service, companion>>

GW_Init ==
    /\ ~gateway.initialized
    /\ \E serial \in BOOLEAN : GwCommit(UARTGateway_init(GwEnter("gw_init"), serial))

\* arguments and outcomes of publish_session: <<session, heap, serialized,
\* parsed, size, written>>.  One call in which every step succeeds, and for
\* each step one call in which it is the step that fails.
RelayInputs ==
    { <<1, TRUE, TRUE, TRUE, FrameLen, FrameLen + 2>>,
      <<0, TRUE, TRUE, TRUE, FrameLen, FrameLen + 2>>,
      <<1, FALSE, TRUE, TRUE, FrameLen, FrameLen + 2>>,
      <<1, TRUE, FALSE, TRUE, FrameLen, FrameLen + 2>>,
      <<1, TRUE, TRUE, FALSE, FrameLen, FrameLen + 2>>,
      <<1, TRUE, TRUE, TRUE, 0, 0>>,
      <<1, TRUE, TRUE, TRUE, FrameLen, 0>> }

GW_PublishSession ==
    /\ \E a \in RelayInputs :
          LET c == GwEnter("gw_publish_session")
          IN  GwCommit(UARTGateway_publish_session([c EXCEPT !.obs.call = a],
                  a[1], a[2], a[3], a[4], a[5], a[6]))

GW_RequestStatus ==
    /\ \E written \in {0, FrameLen + 2} :
          GwCommit(UARTGateway_request_status(GwEnter("gw_request_status"),
                                              FrameLen, written))

GW_Handle == GwCommit(UARTGateway_handle(GwEnter("gw_handle")))

Arrive(bytes, rest, open, last, fresh, recover) ==
    /\ gateway.uart
    /\ now = U32(0)
    /\ uart' = [rx |-> uart.rx \o bytes, run |-> rest, open |-> open,
                last |-> last, fresh |-> fresh, recover |-> recover]
    /\ UNCHANGED <<mqtt, nvs, wl_connected, now, obs, streak, wifi, wifi_nvs, gateway, service, companion>>

\* a frame, straight after a run or at the beginning of a line
ArriveFrame ==
    /\ uart.run = 0
    /\ uart.rx = <<>> \/ uart.open
    /\ \E f \in 1..Len(Frames) :
          Arrive(FrameBytes(f) \o <<CR, LF>>, 0, FALSE,
                 IF Frames[f].status THEN f ELSE uart.last,
                 IF uart.open THEN 0 ELSE f,
                 IF uart.open THEN f ELSE 0)

\* a terminated line that is no JSON
ArriveMalformed ==
    /\ uart.run = 0
    /\ uart.rx = <<>>
    /\ Arrive(NoiseBytes(FrameLen) \o <<LF>>, 0, FALSE, uart.last, 0, 0)

\* the next piece of a run without terminator
ArriveRun ==
    /\ uart.rx = <<>>
    /\ uart.run > 0 \/ ~uart.open
    /\ LET left == IF uart.run > 0 THEN uart.run ELSE LongRun
           n == Min(left, ReadsPerCycle)
       IN  Arrive(NoiseBytes(n), left - n, TRUE, uart.last, 0, 0)

RelayClockStep == STATUS_REQUEST_INTERVAL_MS \div 2

RelayTock ==
    /\ uart = UartIdle
    /\ service = NetworkConfigService_new
    /\ companion = Companion_new
    /\ U32Less(now, MaxRelaySteps * RelayClockStep)
    /\ AdvanceClock(RelayClockStep)

InitRelay ==
    /\ mqtt = MQTTManager_new
    /\ nvs = NvsEmpty
    /\ wl_connected = FALSE
    /\ now = U32(0)
    /\ obs = NoObs
    /\ streak = 0
    /\ wifi = WiFiManager_new
    /\ wifi_nvs = WifiNvsEmpty
    /\ gateway = UARTGateway_new
    /\ uart = UartIdle
    /\ service = NetworkConfigService_new
    /\ companion = Companion_new

NextRelay ==
    \/ GW_Init
    \/ GW_PublishSession
    \/ GW_RequestStatus
    \/ GW_Handle
    \/ ArriveFrame
    \/ ArriveMalformed
    \/ ArriveRun
    \/ RelayTock

SpecRelay == InitRelay /\ [][NextRelay]_vars

----------------------------------------------------------------------------
(* Specification of the retry queue of a broker manager that stays         *)
(* connected.  The manager is initialised from a configured store and      *)
(* enabled with the link up; the link and the broker connection are never  *)
(* lost.  The network task calls handle() for ever (weak fairness), every  *)
(* send of a drain is accepted or refused by the client, and the caller    *)
(* publishes whenever it likes, with either outcome (no fairness: it may   *)
(* also never stop).  A new session takes an identifier that no pending    *)
(* entry carries; the caller holds back while MaxPending entries are       *)
(* pending.                                                                *)

MaxPending == 3

\* the smallest identifier that no pending entry carries
FreeSession ==
    CHOOSE s \in 1..(MaxPending + 1) :
        /\ ~\E i \in 1..Len(mqtt.publish_queue) : mqtt.publish_queue[i].topic = s
        /\ \A t \in 1..(s - 1) :
               \E i \in 1..Len(mqtt.publish_queue) : mqtt.publish_queue[i].topic = t

InitDrain ==
    /\ mqtt = MQTTManager_new
    /\ nvs = NvsConfigured(FALSE)
    /\ wl_connected = TRUE
    /\ now = U32(0)
    /\ obs = NoObs
    /\ streak = 0
    /\ wifi = WiFiManager_new
    /\ wifi_nvs = WifiNvsEmpty
    /\ gateway = UARTGateway_new
    /\ uart = UartIdle
    /\ service = NetworkConfigService_new
    /\ companion = Companion_new

DrainInit == MQTT_Init(TRUE)

DrainEnable == mqtt.preferences /\ ~mqtt.enabled /\ MQTT_Enable(TRUE)

\* a send outcome that the drain did not read is given its first value only
DrainHandle ==
    /\ mqtt.enabled
    /\ \E outs \in [1..max_per_cycle -> {SendOk, SendRefused}] :
          /\ MQTT_Handle(TRUE, outs)
          /\ \A i \in 1..max_per_cycle : i > Len(obs'.sends) => outs[i] = SendOk

DrainPublish ==
    /\ mqtt.enabled
    /\ Len(mqtt.publish_queue) < MaxPending
    /\ \E out \in {SendOk, SendRefused} :
          MQTT_PublishSession(FreeSession, TRUE, out.fits, out.client_ok)

NextDrain ==
    \/ DrainInit
    \/ DrainEnable
    \/ DrainHandle
    \/ DrainPublish

SpecDrain == InitDrain /\ [][NextDrain]_vars /\ WF_vars(DrainHandle)

----------------------------------------------------------------------------
(* Specification of the provisioning of the broker configuration.  The     *)
(* texts written are "host:port|rest" for the hosts, port numbers and      *)
(* remainders below, and a few texts of another shape.                     *)

\* port numbers written as decimal text: in range, the two ends of the
\* range, and beyond them
PortValues == {0, 1, MQTT_DEFAULT_PORT, Half - 1, Half, Half + MQTT_DEFAULT_PORT, -1}

HostTexts == {<<"h">>, <<" ", "h">>, <<" ">>, <<>>}

\* with both separators, with empty login, without the second separator,
\* empty
RestTexts == {<<"u", "|", "p">>, <<"|">>, <<"u">>, <<"u", " ">>, <<>>}

Line(host, port, rest) == host \o <<":">> \o port \o <<"|">> \o rest

ProvisionInputs ==
    {[data |-> Line(h, Decimal(n), r), host |-> h, port |-> <<n>>, rest |-> r] :
        h \in HostTexts, n \in PortValues, r \in RestTexts}
    \cup
    {[data |-> d, host |-> <<>>, port |-> <<>>, rest |-> <<>>] :
        d \in {NullStr, <<>>, <<"h", ":", "1">>, <<"h", "|", "u", "|", "p">>,
               Line(<<"h">>, <<>>, <<"u", "|", "p">>),
               Line(<<"h">>, <<"x">>, <<"u", "|", "p">>)}}

ServiceInit ==
    /\ service = NetworkConfigService_new
    /\ \E mqtt_ptr \in BOOLEAN :
          service' = NetworkConfigService_init(service, TRUE, mqtt_ptr)
    /\ obs' = [NoObs EXCEPT !.op = "service_init"]
    /\ UNCHANGED <<mqtt, nvs, wl_connected, now, streak, wifi, wifi_nvs, gateway,
                   uart, companion>>

ProvisionBrokerInit == \E prefs \in BOOLEAN : MQTT_Init(prefs)

MqttConfigWrite ==
    /\ service # NetworkConfigService_new
    /\ \E a \in ProvisionInputs, fits \in BOOLEAN :
          LET e == Enter("handle_mqtt_config_write")
          IN  Commit(NetworkConfigService_handle_mqtt_config_write(
                  [e EXCEPT !.obs.call = [host |-> a.host, port |-> a.port,
                                          rest |-> a.rest, fits |-> fits]],
                  service, a.data, fits))
    /\ streak' = 0
    /\ UNCHANGED <<wl_connected, now, wifi, wifi_nvs, gateway, uart, service, companion>>

InitProvision ==
    /\ mqtt = MQTTManager_new
    /\ nvs \in InitialStores
    /\ wl_connected = FALSE
    /\ now = U32(0)
    /\ obs = NoObs
    /\ streak = 0
    /\ wifi = WiFiManager_new
    /\ wifi_nvs = WifiNvsEmpty
    /\ gateway = UARTGateway_new
    /\ uart = UartIdle
    /\ service = NetworkConfigService_new
    /\ companion = Companion_new

NextProvision ==
    \/ ServiceInit
    \/ ProvisionBrokerInit
    \/ MqttConfigWrite

SpecProvision == InitProvision /\ [][NextProvision]_vars

----------------------------------------------------------------------------
(* Specification of the companion chip.  Its loop runs for ever, with      *)
(* whatever is waiting on its two serial ports; the radio and the broker   *)
(* connection come and go, and the clock advances in steps longer than the *)
(* reconnect interval and wraps around.                                    *)

CompanionCommit(c) ==
    /\ companion' = c.k
    /\ obs' = c.obs
    /\ UNCHANGED <<mqtt, nvs, wl_connected, now, streak, wifi, wifi_nvs, gateway,
                   uart, service>>

C6_Setup ==
    /\ ~companion.booted
    /\ CompanionCommit(Companion_setup(CompanionEnter("c6_setup")))

C6_Loop ==
    /\ companion.booted
    /\ \E command \in {"", "wifi", "mqtt", "reset", "status"},
          line \in {"", "pub", "pub_nodata", "status"},
          joined, accept \in BOOLEAN :
          CompanionCommit(Companion_loop(CompanionEnter("c6_loop"),
                                         command, line, joined, accept))

CompanionEnv(k) ==
    /\ companion.booted
    /\ companion' = k
    /\ obs' = [NoObs EXCEPT !.op = "env"]
    /\ UNCHANGED <<mqtt, nvs, wl_connected, now, streak, wifi, wifi_nvs, gateway,
                   uart, service>>

\* the radio of the companion chip joins or loses the network by itself
C6_RadioChange == CompanionEnv([companion EXCEPT !.wl = ~@])

\* the broker connection of the companion chip is lost
C6_ClientDrop ==
    /\ companion.client
    /\ CompanionEnv([companion EXCEPT !.client = FALSE])

CompanionTock == companion.booted /\ AdvanceClock(LiveClockStep)

InitCompanion ==
    /\ mqtt = MQTTManager_new
    /\ nvs = NvsEmpty
    /\ wl_connected = FALSE
    /\ now = U32(0)
    /\ obs = NoObs
    /\ streak = 0
    /\ wifi = WiFiManager_new
    /\ wifi_nvs = WifiNvsEmpty
    /\ gateway = UARTGateway_new
    /\ uart = UartIdle
    /\ service = NetworkConfigService_new
    /\ \E configured \in BOOLEAN :
          companion = IF configured
                      THEN [Companion_new EXCEPT !.prefs.wifi_ssid = NewSsid,
                                                 !.prefs.mqtt_broker = NewBroker]
                      ELSE Companion_new

NextCompanion ==
    \/ C6_Setup
    \/ C6_Loop
    \/ C6_RadioChange
    \/ C6_ClientDrop
    \/ CompanionTock

SpecCompanion ==
    InitCompanion /\ [][NextCompanion]_vars
        /\ WF_vars(C6_Setup) /\ WF_vars(C6_Loop) /\ WF_vars(CompanionTock)

----------------------------------------------------------------------------
(* Properties                                                              *)

Topics(q) == [i \in 1..Len(q) |-> q[i].topic]

InQueue(t, q) == \E i \in 1..Len(q) : q[i].topic = t

Entry(t, q) == q[CHOOSE i \in 1..Len(q) : q[i].topic = t]

\* failed and successful sends of topic t among the sends of an operation
Fails(t, sends) == Cardinality({i \in 1..Len(sends) : sends[i].topic = t /\ ~sends[i].ok})
Wins(t, sends) == Cardinality({i \in 1..Len(sends) : sends[i].topic = t /\ sends[i].ok})

AllOk(sends) == \A i \in 1..Len(sends) : sends[i].ok

\* how often the publish observer was called with <<session, result>>
Reports(session, result) ==
    Cardinality({i \in 1..Len(obs.publish_calls) : obs.publish_calls[i] = <<session, result>>})

\* the last operation was publish_session for a session that is not null and
\* that serialised
PublishedRecord ==
    /\ obs.op = "publish_session"
    /\ obs.call[1] # NullSession
    /\ obs.call[2]

\* the i-th send of the last operation was the last one for its topic
LastSendOf(i) == \A j \in (i + 1)..Len(obs.sends) : obs.sends[j].topic # obs.sends[i].topic

\* C1: after any operation of the broker manager the retry queue holds at most
\* 10 pending entries.
C1_QueueWithinCapacity == Len(mqtt.publish_queue) <= 10

\* C1 witness: a publish was refused on a queue of 10
C1_Witness ==
    /\ obs.op = "publish_session"
    /\ obs.ret = FAILED
    /\ Len(mqtt.publish_queue) = 10
    /\ mqtt.enabled

\* C2: a publish that takes the enqueue path (status not Connected, or the
\* immediate send failed) while 10 entries are pending returns Dropped (FAILED)
\* and leaves the queue exactly as it was.
C2_FullQueueRefuses ==
    [][ ( /\ obs'.op = "publish_session"
          /\ Len(mqtt.publish_queue) = 10
          /\ (mqtt.status # CONNECTED \/ ~AllOk(obs'.sends)) )
        => ( /\ obs'.ret = FAILED
             /\ mqtt'.publish_queue = mqtt.publish_queue ) ]_vars

\* C2 witness: the immediate send failed on a full queue, the record was refused
C2_Witness ==
    /\ PublishedRecord
    /\ Len(obs.sends) = 1 /\ ~obs.sends[1].ok
    /\ obs.ret = FAILED
    /\ Len(mqtt.publish_queue) = 10

\* C3: in a drain, an entry whose retry fails for the 3rd time is removed and is
\* not retried again; an entry that is not delivered and has fewer than 3 failed
\* retries stays queued with its retry_count raised by one per failed retry.
C3_RetryCeiling ==
    [][ obs'.op = "handle" =>
        \A i \in 1..Len(mqtt.publish_queue) :
            LET e == mqtt.publish_queue[i]
                f == Fails(e.topic, obs'.sends)
                w == Wins(e.topic, obs'.sends)
                after == e.retry_count + f
            IN  /\ after <= 3
                /\ after = 3 => ~InQueue(e.topic, mqtt'.publish_queue)
                /\ w >= 1 => ~InQueue(e.topic, mqtt'.publish_queue)
                /\ (after < 3 /\ w = 0) =>
                       /\ InQueue(e.topic, mqtt'.publish_queue)
                       /\ Entry(e.topic, mqtt'.publish_queue).retry_count = after ]_vars

\* C3 witness: a retry failed and its entry is gone without having been delivered
C3_Witness ==
    /\ obs.op = "handle"
    /\ \E i \in 1..Len(obs.sends) :
           /\ ~obs.sends[i].ok
           /\ Wins(obs.sends[i].topic, obs.sends) = 0
           /\ ~InQueue(obs.sends[i].topic, mqtt.publish_queue)
    /\ mqtt.publish_queue # <<>>

\* C4: one handle() makes at most 3 retry sends, whatever the depth of the queue
\* and the outcome of each send.
C4_AtMostThreeSendsPerTick == obs.op = "handle" => Len(obs.sends) <= 3

\* C4 witness: a tick that found 10 entries made 3 sends and left 7
C4_Witness ==
    /\ obs.op = "handle"
    /\ Len(obs.sends) = 3 /\ AllOk(obs.sends)
    /\ Len(mqtt.publish_queue) = 7

\* the enqueue decision of a publish of `session`: Queued at the back when fewer
\* than 10 are pending, otherwise Dropped with the queue as it was
EnqueueDecision(session) ==
    IF Len(mqtt.publish_queue) < 10
    THEN /\ obs'.ret = QUEUED
         /\ mqtt'.publish_queue =
                Append(mqtt.publish_queue,
                       [topic |-> session, payload |-> session, retry_count |-> 0])
    ELSE /\ obs'.ret = FAILED
         /\ mqtt'.publish_queue = mqtt.publish_queue

\* C5 as stated: a publish call made while status is not Connected hands
\* nothing to the transport and goes to the enqueue decision.
C5_NotConnectedEnqueues ==
    [][ ( /\ obs'.op = "publish_session"
          /\ obs'.call[1] # NullSession
          /\ mqtt.status # CONNECTED )
        => (obs'.sends = <<>> /\ EnqueueDecision(obs'.call[1])) ]_vars

\* C5 as amended: a publish call for a record that serialises, made while the
\* manager is enabled and status is not Connected, hands nothing to the
\* transport and goes to the enqueue decision; made while the manager is
\* disabled, it hands nothing to the transport, returns FAILED and leaves the
\* queue as it was.
C5_EnabledNotConnectedEnqueues ==
    [][ /\ (PublishedRecord' /\ mqtt.enabled /\ mqtt.status # CONNECTED)
            => (obs'.sends = <<>> /\ EnqueueDecision(obs'.call[1]))
        /\ (PublishedRecord' /\ ~mqtt.enabled)
            => ( /\ obs'.sends = <<>>
                 /\ obs'.ret = FAILED
                 /\ mqtt'.publish_queue = mqtt.publish_queue ) ]_vars

\* C5 witness: a record was queued without a send while the manager was not connected
C5_Witness ==
    /\ PublishedRecord
    /\ mqtt.status \in {DISABLED, DISCONNECTED, CONNECTING, ERROR}
    /\ mqtt.mqtt_client.connected
    /\ obs.sends = <<>>
    /\ obs.ret = QUEUED

\* C6: for an enabled manager and a record, publish returns Success with the
\* queue unchanged when status is Connected and the send succeeds, and otherwise
\* takes the enqueue decision.
C6_PublishResult ==
    [][ (PublishedRecord' /\ mqtt.enabled) =>
        /\ Len(obs'.sends) = (IF mqtt.status = CONNECTED THEN 1 ELSE 0)
        /\ IF mqtt.status = CONNECTED /\ AllOk(obs'.sends)
           THEN /\ obs'.ret = SUCCESS
                /\ mqtt'.publish_queue = mqtt.publish_queue
           ELSE EnqueueDecision(obs'.call[1]) ]_vars

\* C6 witness: an immediate send succeeded with entries pending
C6_Witness ==
    /\ PublishedRecord
    /\ obs.ret = SUCCESS
    /\ mqtt.publish_queue # <<>>

\* C7: every publish of a record, also on a disabled manager, calls the
\* registered publish observer exactly once, with the caller's identifier and
\* the result the call returns.
C7_ObserverOnEveryPublish ==
    (PublishedRecord /\ mqtt.publish_callback)
        => obs.publish_calls = << <<obs.call[1], obs.ret>> >>

\* C8: every queued record that a drain delivers is reported Success through the
\* publish observer exactly once.
C8_DrainReportsSuccess ==
    (obs.op = "handle" /\ mqtt.publish_callback)
        => \A i \in 1..Len(obs.sends) :
               obs.sends[i].ok => Reports(obs.sends[i].topic, SUCCESS) = 1

\* C9: no record is dropped silently: a record refused at publish time is
\* reported Dropped (FAILED) to the caller, and an entry discarded at its retry
\* ceiling by a drain is reported Dropped (FAILED) to the publish observer.
C9_NoSilentDrop ==
    /\ (PublishedRecord /\ mqtt.enabled /\ ~AllOk(obs.sends)
            /\ ~InQueue(obs.call[1], mqtt.publish_queue))
           => obs.ret = FAILED
    /\ (obs.op = "handle" /\ mqtt.publish_callback)
           => \A i \in 1..Len(obs.sends) :
                  ( /\ ~obs.sends[i].ok
                    /\ LastSendOf(i)
                    /\ ~InQueue(obs.sends[i].topic, mqtt.publish_queue) )
                  => Reports(obs.sends[i].topic, FAILED) >= 1

\* C10: on a connected manager with an empty queue, each of 3 publishes whose
\* immediate send fails returns Queued; the tick that follows them, in which the
\* link and the broker connection are up and no send fails, sends each of the 3
\* entries once, in the order of their publication, and leaves the queue empty.
C10_QueuedThenDrained ==
    [][ /\ (obs'.op = "publish_session" /\ streak' \in 1..3)
            => ( /\ obs'.ret = QUEUED
                 /\ Len(mqtt'.publish_queue) = streak'
                 /\ mqtt'.publish_queue[streak'].topic = obs'.call[1] )
        /\ ( /\ obs'.op = "handle"
              /\ streak = 3
              /\ wl_connected /\ mqtt.mqtt_client.connected
              /\ AllOk(obs'.sends) )
            => ( /\ Len(mqtt.publish_queue) = 3
                 /\ [i \in 1..Len(obs'.sends) |-> obs'.sends[i].topic]
                        = Topics(mqtt.publish_queue)
                 /\ mqtt'.publish_queue = <<>> ) ]_vars

\* C10 witness: the tick after such a run of 3 has sent 3 and emptied the queue
C10_Witness ==
    /\ obs.op = "handle"
    /\ obs.streak = 3
    /\ Len(obs.sends) = 3 /\ AllOk(obs.sends)
    /\ mqtt.publish_queue = <<>>


\* the entries of q that none of the first n sends was for, in queue order
Unsent(q, sends, n) ==
    SelectSeq(q, LAMBDA e : \A j \in 1..n : sends[j].topic # e.topic)

\* the topics of the entries that the sends put back into queue `after`, in the
\* order of the failed send that put them there
RECURSIVE Requeued(_, _, _)
Requeued(sends, after, i) ==
    IF i > Len(sends) THEN <<>>
    ELSE IF /\ ~sends[i].ok
            /\ \A j \in (i + 1)..Len(sends) : sends[j].topic # sends[i].topic
            /\ InQueue(sends[i].topic, after)
    THEN <<sends[i].topic>> \o Requeued(sends, after, i + 1)
    ELSE Requeued(sends, after, i + 1)

\* C11: the retry queue is FIFO.  A drain sends the front entry first and sends
\* no entry again while an older entry of the queue has not been sent; after the
\* drain the entries it did not send are at the front in their old order and the
\* entries whose retry failed below the ceiling are behind them, in the order in
\* which they failed.  A publish that is queued appends at the back.
C11_QueueIsFifo ==
    [][ /\ obs'.op = "handle" =>
            /\ obs'.sends # <<>> => obs'.sends[1].topic = Head(mqtt.publish_queue).topic
            /\ \A i \in 1..Len(obs'.sends) :
                   LET waiting == Unsent(mqtt.publish_queue, obs'.sends, i - 1)
                   IN  waiting # <<>> => obs'.sends[i].topic = Head(waiting).topic
            /\ Topics(mqtt'.publish_queue) =
                   Topics(Unsent(mqtt.publish_queue, obs'.sends, Len(obs'.sends)))
                       \o Requeued(obs'.sends, mqtt'.publish_queue, 1)
        /\ (obs'.op = "publish_session" /\ obs'.ret = QUEUED) =>
            /\ Len(mqtt'.publish_queue) = Len(mqtt.publish_queue) + 1
            /\ SubSeq(mqtt'.publish_queue, 1, Len(mqtt.publish_queue)) = mqtt.publish_queue
            /\ mqtt'.publish_queue[Len(mqtt'.publish_queue)].topic = obs'.call[1] ]_vars

\* C11 witness: a drain failed the retry of an entry below the ceiling and left
\* it at the back, behind an entry that it had not sent
C11_Witness ==
    /\ obs.op = "handle"
    /\ Len(mqtt.publish_queue) >= 2
    /\ \E i \in 1..Len(obs.sends) :
           /\ ~obs.sends[i].ok
           /\ mqtt.publish_queue[Len(mqtt.publish_queue)].topic = obs.sends[i].topic
    /\ \A i \in 1..Len(obs.sends) : obs.sends[i].topic # Head(mqtt.publish_queue).topic

\* C12: from every state, disable() and the clearing of the credentials or of
\* the broker configuration leave the manager with status Disabled and the
\* enabled flag false, and the broker manager with an empty retry queue.
C12_DisableFromAnyState ==
    /\ obs.op \in {"wifi_disable", "wifi_clear_credentials"}
           => (wifi.status = DISABLED /\ ~wifi.enabled)
    /\ obs.op \in {"disable", "clear_broker_config"}
           => (mqtt.status = DISABLED /\ ~mqtt.enabled /\ mqtt.publish_queue = <<>>)

\* C13: for both managers, a tick neither changes the status to Disabled nor
\* changes it away from Disabled.
C13_TickKeepsDisabledApart ==
    [][ /\ obs'.op = "wifi_handle"
            => (wifi'.status = DISABLED <=> wifi.status = DISABLED)
        /\ obs'.op = "handle"
            => (mqtt'.status = DISABLED <=> mqtt.status = DISABLED) ]_vars

\* C14: in one tick of either manager the status observer is called at most
\* once, and when it is called it is given the status the manager has when the
\* tick ends.
C14_OneNotificationPerTick ==
    /\ (obs.op = "wifi_handle" /\ wifi.status_callback)
           => \/ obs.status_calls = <<>>
              \/ obs.status_calls = <<wifi.status>>
    /\ (obs.op = "handle" /\ mqtt.status_callback)
           => \/ obs.status_calls = <<>>
              \/ obs.status_calls = <<mqtt.status>>

\* One tick of a manager that had `status`, reconnect interval `interval` and
\* its last attempt at `last`, and that has interval `after` when the tick ends.
\* The interval in force is the base B when this tick found an established
\* connection lost, and `interval` otherwise.  A tick that made an attempt
\* made it no sooner than the interval in force after the last one and has
\* doubled that interval up to the ceiling C; a tick that made none has left
\* the interval alone or has reset it to B.
Backoff(status, interval, last, made, after, B, C) ==
    LET inforce == IF status = CONNECTED THEN B ELSE interval
    IN  /\ B <= after /\ after <= C
        /\ made => /\ ~U32Less(Elapsed(last), inforce)
                   /\ after = Min(2 * inforce, C)
        /\ ~made => after \in {interval, B}

\* C15: the reconnect interval starts at B = 5000 and is in force until the
\* next attempt, which doubles it up to C = 30000: before the k-th of
\* consecutive failed attempts it is min(B * 2^k, C), that is 5000, 10000,
\* 20000, 30000, 30000, and it is never below B nor above C.  The link manager
\* counts its attempts (at most 3), so that its interval is min(B * 2^k, C) for
\* its count k in every state.
C15_BackoffSequence ==
    [][ /\ obs'.op = "handle" =>
               Backoff(mqtt.status, mqtt.reconnect_interval,
                       mqtt.last_connection_attempt, obs'.connects # <<>>,
                       mqtt'.reconnect_interval,
                       MQTT_RECONNECT_INTERVAL_MS, MQTT_MAX_RECONNECT_INTERVAL_MS)
        /\ obs'.op = "wifi_handle" =>
               Backoff(wifi.status, wifi.reconnect_interval,
                       wifi.last_connection_attempt, obs'.connects # <<>>,
                       wifi'.reconnect_interval,
                       WIFI_RECONNECT_INTERVAL_MS, WIFI_MAX_RECONNECT_INTERVAL_MS)
        /\ obs'.op \in {"enable", "wifi_enable", "wifi_init"} /\ obs'.connects # <<>>
               => /\ mqtt'.reconnect_interval = MQTT_RECONNECT_INTERVAL_MS
                  /\ wifi'.reconnect_interval = WIFI_RECONNECT_INTERVAL_MS
        /\ mqtt'.reconnect_interval \in {5000, 10000, 20000, 30000}
        /\ wifi'.reconnect_interval =
               Min(WIFI_RECONNECT_INTERVAL_MS * 2^(wifi'.reconnect_attempts),
                   WIFI_MAX_RECONNECT_INTERVAL_MS) ]_vars

\* C15 witness: the broker manager has made its 5th reconnect attempt in a row,
\* after waiting 30000 ms, and its interval is still 30000
C15_Witness ==
    /\ obs.op = "handle"
    /\ obs.connects # <<>>
    /\ mqtt.reconnect_attempts = 5
    /\ mqtt.reconnect_interval = MQTT_MAX_RECONNECT_INTERVAL_MS
    /\ mqtt.status = CONNECTING
    /\ ~mqtt.mqtt_client.connected

\* the tick of the link manager takes a reconnect decision: it is enabled and
\* its status is Disconnected or Error, or it finds its attempt timed out or its
\* connection lost
ReconnectDecision ==
    /\ wifi.enabled
    /\ \/ wifi.status \in {DISCONNECTED, ERROR}
       \/ /\ wifi.status = CONNECTING
          /\ ~wl_connected
          /\ U32Greater(Elapsed(wifi.last_connection_attempt), WIFI_CONNECTION_TIMEOUT_MS)

\* C16: the link manager never counts more than 3 reconnect attempts.  A tick
\* that takes a reconnect decision with 3 attempts counted starts no connection
\* attempt and ends with status Error, and a tick in status Error with 3 attempts
\* counted starts none and leaves the status Error.
C16_LinkAttemptsBounded ==
    [][ /\ wifi'.reconnect_attempts <= WIFI_MAX_RECONNECT_ATTEMPTS
        /\ ( /\ obs'.op = "wifi_handle"
             /\ ReconnectDecision
             /\ wifi.reconnect_attempts = WIFI_MAX_RECONNECT_ATTEMPTS )
           => ( /\ wifi'.status = ERROR
                /\ obs'.connects = <<>>
                /\ wifi'.reconnect_attempts = WIFI_MAX_RECONNECT_ATTEMPTS )
        /\ ( /\ obs'.op = "wifi_handle"
             /\ wifi.status = ERROR
             /\ wifi.reconnect_attempts = WIFI_MAX_RECONNECT_ATTEMPTS )
           => ( /\ wifi' = wifi
                /\ obs'.connects = <<>>
                /\ obs'.status_calls = <<>> ) ]_vars

\* C16 witness: after 3 reconnect attempts the tick that found the last one
\* timed out has set status Error without starting another
C16_Witness ==
    /\ obs.op = "wifi_handle"
    /\ obs.status_calls = <<DISCONNECTED, ERROR>>
    /\ obs.connects = <<>>
    /\ wifi.status = ERROR
    /\ wifi.reconnect_attempts = WIFI_MAX_RECONNECT_ATTEMPTS
    /\ wifi.enabled

\* C17: enable() called on the link manager that is in Error because it has
\* used up its reconnect attempts resets the reconnect state and starts a
\* connection attempt, status Connecting.
C17_EnableRestartsAfterError ==
    [][ ( /\ obs'.op = "wifi_enable"
          /\ wifi.enabled
          /\ wifi.status = ERROR
          /\ wifi.reconnect_attempts = WIFI_MAX_RECONNECT_ATTEMPTS )
        => ( /\ wifi'.status = CONNECTING
             /\ obs'.connects # <<>>
             /\ wifi'.reconnect_attempts = 0
             /\ wifi'.reconnect_interval = WIFI_RECONNECT_INTERVAL_MS ) ]_vars

\* the broker manager is enabled and configured and the link is up
BrokerReady == mqtt.enabled /\ MQTTManager_has_broker_config(mqtt) /\ wl_connected

\* C18: if from some point on the broker manager is enabled and configured and
\* the link stays connected, then, the broker accepting every connection and
\* the manager being polled while time advances, its status becomes Connected.
C18_BrokerEventuallyConnected == <>[]BrokerReady => <>(mqtt.status = CONNECTED)

\* What does hold: a broker manager that is enabled and configured and whose
\* status is not Disabled becomes Connected and stays so once the link stays
\* up, however many reconnect attempts it has made.
StartedBrokerEventuallyConnected ==
    <>[](BrokerReady /\ mqtt.status # DISABLED) => <>[](mqtt.status = CONNECTED)

\* enable() of the link manager was entered in the last operation, by the
\* caller or by init(), with the flag and the status of EnableEntry
EnableCalled == obs.op \in {"wifi_enable", "wifi_init"} /\ obs.call # <<>>
EnableEntry == obs.call[1]

\* what enable() does once it is past its first test: without credentials
\* status Error, no connection attempt and flag and store as they were;
\* otherwise the flag set and persisted, the attempt count 0 and the interval at
\* its base, one connection attempt started and status Connecting
EnableStarts ==
    IF ~WiFiManager_has_credentials(wifi')
    THEN /\ wifi'.status = ERROR
         /\ wifi'.enabled = EnableEntry'.enabled
         /\ obs'.op = "wifi_enable" =>
                (wifi' = [wifi EXCEPT !.status = ERROR] /\ wifi_nvs' = wifi_nvs)
         /\ obs'.connects = <<>>
    ELSE /\ wifi'.enabled
         /\ wifi_nvs' = NvsPut(wifi_nvs, "wifi_enabled", TRUE)
         /\ wifi'.reconnect_attempts = 0
         /\ wifi'.reconnect_interval = WIFI_RECONNECT_INTERVAL_MS
         /\ obs'.connects = <<wifi'.ssid>>
         /\ wifi'.last_connection_attempt = now
         /\ wifi'.status = CONNECTING

\* C19 as stated: enable() of the link manager.  Already enabled: nothing
\* changes.  Otherwise, without credentials: status Error, no connection
\* attempt, the enabled flag not set.  Otherwise: the flag set and persisted,
\* the attempt count 0 and the interval at its base, one connection attempt
\* started and status Connecting.
C19_LinkEnable ==
    [][ EnableCalled' =>
        IF EnableEntry'.enabled
        THEN /\ obs'.connects = <<>> /\ obs'.status_calls = <<>>
             /\ wifi'.status = EnableEntry'.status
             /\ obs'.op = "wifi_enable" => (wifi' = wifi /\ wifi_nvs' = wifi_nvs)
        ELSE EnableStarts ]_vars

\* C19 as amended: enable() of the link manager.  Already enabled with a status
\* other than Disabled: nothing changes.  Otherwise, without credentials: status
\* Error, no connection attempt, the enabled flag left as it was.  Otherwise: the
\* flag set and persisted, the attempt count 0 and the interval at its base, one
\* connection attempt started and status Connecting.
C19_LinkEnableUnlessStarted ==
    [][ EnableCalled' =>
        IF EnableEntry'.enabled /\ EnableEntry'.status # DISABLED
        THEN /\ obs'.connects = <<>> /\ obs'.status_calls = <<>>
             /\ wifi' = wifi /\ wifi_nvs' = wifi_nvs
        ELSE EnableStarts ]_vars

\* C19 witness: init() found the flag set in the store and called enable(),
\* which started a connection attempt although the flag was set already
C19_Witness ==
    /\ obs.op = "wifi_init"
    /\ EnableCalled
    /\ EnableEntry.enabled /\ EnableEntry.status = DISABLED
    /\ wifi.enabled
    /\ wifi.status = CONNECTING
    /\ obs.connects = <<wifi.ssid>>
    /\ obs.status_calls = <<CONNECTING>>

\* enable() of the broker manager is called without a broker configuration or
\* with the link down
EnableUnready ==
    /\ obs'.op = "enable"
    /\ ~MQTTManager_has_broker_config(mqtt) \/ ~wl_connected

\* enable() has failed: status Error, no attempt handed to the client, the
\* enabled flag as it was in memory and in the store
EnableFails ==
    /\ mqtt' = [mqtt EXCEPT !.status = ERROR]
    /\ nvs' = nvs
    /\ obs'.connects = <<>>

\* C20 as stated: enable() of the broker manager called without a broker
\* configuration or with the link down sets status Error, starts no connection
\* attempt and neither sets nor persists the enabled flag.
C20_EnableUnreadyFails == [][ EnableUnready => EnableFails ]_vars

\* C20 as amended: such a call on a manager that is already enabled with a
\* status other than Disabled changes nothing; on any other manager it sets
\* status Error, starts no connection attempt and leaves the enabled flag as it
\* was, in memory and in the store.
C20_EnableUnreadyFailsUnlessStarted ==
    [][ EnableUnready =>
        IF mqtt.enabled /\ mqtt.status # DISABLED
        THEN /\ mqtt' = mqtt /\ nvs' = nvs
             /\ obs'.connects = <<>> /\ obs'.status_calls = <<>>
        ELSE EnableFails ]_vars

\* C20 witness: enable() with a broker configured and the link down has failed
\* into Error and has left the flag unset
C20_Witness ==
    /\ obs.op = "enable"
    /\ MQTTManager_has_broker_config(mqtt)
    /\ ~wl_connected
    /\ mqtt.status = ERROR
    /\ obs.status_calls = <<ERROR>>
    /\ obs.connects = <<>>
    /\ ~mqtt.enabled
    /\ NvsGet(nvs, "mqtt_enabled", FALSE) = FALSE

\* the public methods of the broker manager
BrokerOps ==
    {"init", "enable", "disable", "handle", "set_broker_config", "clear_broker_config",
     "test_connection", "publish_session", "set_publish_callback", "set_status_callback"}

\* C21: a tick of the broker manager that is enabled with status Connected or
\* Connecting and finds the link not connected ends with status Error, and no
\* operation of the broker manager made while the link is not connected starts a
\* broker connection attempt.
C21_LinkDownMeansError ==
    [][ /\ ( /\ obs'.op = "handle"
             /\ ~wl_connected
             /\ mqtt.enabled
             /\ mqtt.status \in {CONNECTED, CONNECTING} )
           => mqtt'.status = ERROR
        /\ (obs'.op \in BrokerOps /\ ~wl_connected) => obs'.connects = <<>> ]_vars

\* C21 witness: a tick found the link down under an established broker
\* connection and has reported Error without an attempt
C21_Witness ==
    /\ obs.op = "handle"
    /\ ~wl_connected
    /\ mqtt.enabled
    /\ mqtt.mqtt_client.connected
    /\ mqtt.status = ERROR
    /\ obs.status_calls = <<ERROR>>
    /\ obs.connects = <<>>

\* status changes of the scenario: the link goes Disabled, Connecting,
\* Connected; the broker takes status Error while the radio is down, and goes
\* Error, Connecting, Connected once the radio is up
ScenarioLinkSteps ==
    wifi'.status # wifi.status =>
        <<wifi.status, wifi'.status>> \in {<<DISABLED, CONNECTING>>, <<CONNECTING, CONNECTED>>}

ScenarioBrokerSteps ==
    mqtt'.status # mqtt.status =>
        \/ ~wl_connected /\ mqtt'.status = ERROR
        \/ /\ wl_connected
           /\ <<mqtt.status, mqtt'.status>> \in {<<ERROR, CONNECTING>>, <<CONNECTING, CONNECTED>>}

BothConnected == wifi.status = CONNECTED /\ mqtt.status = CONNECTED

\* C22: scenario.  The link is Disabled with valid stored credentials, the
\* broker is enabled and configured.  enable() on the link, followed by ticks
\* in which the radio and then the broker connect, takes the link through
\* Disabled, Connecting, Connected and then the broker through Error,
\* Connecting, Connected, with no other status in between: no other status
\* change happens, and both end up Connected.
C22_EnableThenConnect ==
    /\ [][ScenarioLinkSteps /\ ScenarioBrokerSteps]_vars
    /\ (obs.op = "wifi_enable") ~> BothConnected

\* What does hold: the status changes are those of the scenario, and a broker
\* that a tick has found with the link down (status Error) goes on to Connected
\* once the link is Connected.
ScenarioFromErrorConnects ==
    /\ [][ScenarioLinkSteps /\ ScenarioBrokerSteps]_vars
    /\ (wifi.status = CONNECTED /\ mqtt.status = ERROR) ~> BothConnected

\* length of a string argument; a null pointer has none
StrLen(str) == IF str = NullStr THEN 0 ELSE Len(str)

\* the arguments that the setters are to reject
BadCredentials(a) ==
    \/ StrLen(a[1]) = 0 \/ StrLen(a[1]) > 32
    \/ StrLen(a[2]) = 0 \/ StrLen(a[2]) > 64

BadConfig(a) ==
    \/ StrLen(a[1]) = 0 \/ StrLen(a[1]) > 128
    \/ a[2] = 0
    \/ StrLen(a[3]) > 64
    \/ StrLen(a[4]) > 64

\* C23: set_credentials called with an empty or over-length identity or
\* secret, and set_broker_config called with an empty or over-length host, with
\* port 0 or with an over-length username or password, return invalid and leave
\* the object (configuration, enabled flag, status) and the store as they were.
C23_RejectedSetterChangesNothing ==
    [][ /\ (obs'.op = "wifi_set_credentials" /\ BadCredentials(obs'.call))
            => ( /\ obs'.ret = "false"
                 /\ wifi' = wifi /\ wifi_nvs' = wifi_nvs
                 /\ wl_connected' = wl_connected )
        /\ (obs'.op = "set_broker_config" /\ BadConfig(obs'.call))
            => ( /\ obs'.ret = "false"
                 /\ mqtt' = mqtt /\ nvs' = nvs ) ]_vars

\* C23 witness: a connected broker manager has refused port 0 for another host
\* than its own and has kept its configuration
C23_Witness ==
    /\ obs.op = "set_broker_config"
    /\ obs.call[2] = 0 /\ obs.call[1] # mqtt.broker /\ Len(obs.call[1]) > 0
    /\ obs.ret = "false"
    /\ mqtt.status = CONNECTED
    /\ Len(mqtt.broker) = 128
    /\ NvsGet(nvs, "mqtt_broker", <<>>) = mqtt.broker

\* a string argument as it is stored: a null pointer as the empty string
Stored(str) == IF str = NullStr THEN <<>> ELSE str

\* C24: set_credentials and set_broker_config called with arguments that they
\* accept return ok and replace the configuration in memory and in the store;
\* they leave the status, the enabled flag, the reconnect state, the client
\* connection and the retry queue as they were, whatever the status, and start no
\* connection attempt, no disconnect and no notification.
C24_AcceptedSetterOnlyStores ==
    [][ /\ (obs'.op = "wifi_set_credentials" /\ ~BadCredentials(obs'.call))
            => ( /\ obs'.ret = "true"
                 /\ wifi' = [wifi EXCEPT !.ssid = obs'.call[1], !.password = obs'.call[2]]
                 /\ wifi_nvs' = [wifi_nvs EXCEPT !["wifi_ssid"] = <<obs'.call[1]>>,
                                                 !["wifi_password"] = <<obs'.call[2]>>]
                 /\ wl_connected' = wl_connected
                 /\ obs'.connects = <<>> /\ obs'.status_calls = <<>> )
        /\ (obs'.op = "set_broker_config" /\ ~BadConfig(obs'.call))
            => ( /\ obs'.ret = "true"
                 /\ mqtt' = [mqtt EXCEPT !.broker = obs'.call[1], !.port = obs'.call[2],
                                         !.username = Stored(obs'.call[3]),
                                         !.password = Stored(obs'.call[4])]
                 /\ nvs' = [nvs EXCEPT !["mqtt_broker"] = <<obs'.call[1]>>,
                                       !["mqtt_port"] = <<obs'.call[2]>>,
                                       !["mqtt_username"] = <<Stored(obs'.call[3])>>,
                                       !["mqtt_password"] = <<Stored(obs'.call[4])>>]
                 /\ obs'.connects = <<>> /\ obs'.status_calls = <<>>
                 /\ obs'.sends = <<>> /\ obs'.presence = 0 ) ]_vars

\* C24 witness: a connected broker manager with a record queued has taken a new
\* configuration and still has its connection to the old server
C24_Witness ==
    /\ obs.op = "set_broker_config" /\ obs.ret = "true"
    /\ mqtt.status = CONNECTED /\ mqtt.mqtt_client.connected
    /\ mqtt.publish_queue # <<>>
    /\ mqtt.mqtt_client.server # <<mqtt.broker, mqtt.port>>

\* milliseconds from the start of the behaviour to the clock reading t: a
\* number that keeps growing when the clock wraps
SinceStart(t) == U32Sub(t, WrapStart)[1] * Half + U32Sub(t, WrapStart)[2]

\* an attempt has been made: last_connection_attempt is a reading of the clock
Attempted(last) == last # U32(0)

\* One tick of a manager that had `status`, was `up` (what the status waits
\* for is there), had made its last attempt at `last` with reconnect interval
\* `interval` and could make another (`may`), decided by the time d that has
\* really passed since that attempt: a pending attempt has timed out exactly if
\* d exceeds the timeout T, an attempt is made exactly if one is due after d
\* (against the base interval B when the tick found an established connection
\* lost).  `notified` and `made` are what the tick did.
WaitsByElapsed(status, up, last, interval, may, notified, made, T, B) ==
    LET d == SinceStart(now) - SinceStart(last)
    IN  /\ (status = CONNECTING /\ ~up) =>
               /\ (DISCONNECTED \in notified) <=> d > T
               /\ made <=> (d > T /\ may /\ d >= interval)
        /\ status \in {DISCONNECTED, ERROR} => (made <=> (may /\ d >= interval))
        /\ (status = CONNECTED /\ ~up) => (made <=> d >= B)

Range(seq) == {seq[i] : i \in 1..Len(seq)}

\* C25: every timeout and backoff decision of a tick is the decision for the
\* time that has passed since the last attempt, whether or not the clock has
\* wrapped around since then.
C25_WaitsSurviveWraparound ==
    [][ /\ ( /\ obs'.op = "handle"
             /\ mqtt.enabled /\ wl_connected
             /\ Attempted(mqtt.last_connection_attempt) )
           => WaitsByElapsed(mqtt.status, mqtt.mqtt_client.connected,
                             mqtt.last_connection_attempt, mqtt.reconnect_interval,
                             TRUE, Range(obs'.status_calls), obs'.connects # <<>>,
                             MQTT_CONNECTION_TIMEOUT_MS, MQTT_RECONNECT_INTERVAL_MS)
        /\ ( /\ obs'.op = "wifi_handle"
             /\ wifi.enabled
             /\ Attempted(wifi.last_connection_attempt) )
           => WaitsByElapsed(wifi.status, wl_connected,
                             wifi.last_connection_attempt, wifi.reconnect_interval,
                             wifi.status = CONNECTED
                                 \/ wifi.reconnect_attempts < WIFI_MAX_RECONNECT_ATTEMPTS,
                             Range(obs'.status_calls), obs'.connects # <<>>,
                             WIFI_CONNECTION_TIMEOUT_MS, WIFI_RECONNECT_INTERVAL_MS) ]_vars

\* the clock reading t was taken before the clock wrapped, the clock has wrapped
BeforeWrap(t) == ~U32Less(t, Half)
Wrapped == U32Less(now, Half)

\* C25 witness: a tick after the wrap has found the attempt made before the
\* wrap timed out, and has not made the next one because the interval of 20000
\* ms has not passed
C25_Witness ==
    /\ obs.op = "handle"
    /\ obs.status_calls = <<DISCONNECTED>>
    /\ obs.connects = <<>>
    /\ Wrapped
    /\ BeforeWrap(mqtt.last_connection_attempt)
    /\ mqtt.reconnect_interval = 20000

\* C26: whatever bytes arrive, the receive buffer of the relay bridge never
\* holds more bytes than the maximum frame length, neither between two
\* ticks nor at any point of a tick.
C26_BufferWithinFrameLength ==
    /\ Len(gateway.rx_buffer) <= MAX_JSON_SIZE
    /\ obs.peak <= MAX_JSON_SIZE

\* a tick has filled the buffer and discarded it
C26_Witness ==
    /\ obs.op = "gw_handle"
    /\ obs.peak = MAX_RX_BUFFER_SIZE - 1
    /\ Len(gateway.rx_buffer) < obs.peak

\* the cached connectivity is what frame f reports
CachedFrom(g, f) ==
    /\ g.wifi_connected = OrFalse(Frames[f].wifi)
    /\ g.mqtt_connected = OrFalse(Frames[f].mqtt)

\* a tick reads the last of the bytes that have arrived
TickEndsLine ==
    /\ obs'.op = "gw_handle"
    /\ uart.rx # <<>>
    /\ uart'.rx = <<>>

\* C27: when a run of bytes longer than the buffer has arrived without a
\* line terminator, the terminated status frame that follows it is parsed
\* and applied to the cached connectivity: the tick that reads its
\* terminator parses exactly one frame, that frame, with nothing of the run
\* in front of it.
C27_FrameAfterLongRunIsParsed ==
    [][\A f \in 1..Len(Frames) :
          (uart.recover = f /\ Frames[f].status /\ TickEndsLine)
              => (obs'.parsed = <<f>> /\ CachedFrom(gateway', f))]_vars

\* a frame that starts at the beginning of a line is parsed by the tick that
\* reads its terminator, and applied if it is a status frame
FrameAtLineStartIsParsed ==
    [][\A f \in 1..Len(Frames) :
          (uart.fresh = f /\ TickEndsLine)
              => /\ obs'.parsed = <<f>>
                 /\ Frames[f].status => CachedFrom(gateway', f)]_vars

\* the cached connectivity of the relay bridge
Cached(g) == <<g.wifi_connected, g.mqtt_connected>>

\* a step of the relay bridge that may change the cached connectivity: a
\* tick that has parsed a status frame
ParsesStatus ==
    /\ obs'.op = "gw_handle"
    /\ \E i \in 1..Len(obs'.parsed) :
          obs'.parsed[i] # 0 /\ Frames[obs'.parsed[i]].status

\* ticks that parse no status frame (malformed lines, frames without the
\* status tag, nothing to read) and the outbound operations leave the cached
\* connectivity as it is
OnlyStatusFramesChangeCache ==
    [][ParsesStatus \/ Cached(gateway') = Cached(gateway)]_vars

\* C30: once the bytes that have arrived are read, the cached link and
\* broker flags are the wifi and mqtt fields (false where missing) of the
\* status frame the companion chip wrote last, and false if it has written
\* none; only a status frame changes them.
C30_CacheIsLastStatusFrame ==
    /\ [](uart.rx = <<>> =>
             IF uart.last = 0
             THEN Cached(gateway) = <<FALSE, FALSE>>
             ELSE CachedFrom(gateway, uart.last))
    /\ OnlyStatusFramesChangeCache

\* the status queries among the lines an operation wrote
StatusQueries(o) == {i \in 1..Len(o.lines) : o.lines[i].cmd = "status"}

\* C28: while the relay bridge is initialized and ticked, a status query is
\* sent at least once in every interval of 10 s: a tick that finds more than
\* STATUS_REQUEST_INTERVAL_MS elapsed since the last request sends one.
C28_StatusQueryEveryInterval ==
    [][(/\ obs'.op = "gw_handle"
        /\ gateway.initialized
        /\ U32Greater(Elapsed(gateway.last_status_request), STATUS_REQUEST_INTERVAL_MS))
          => StatusQueries(obs') # {}]_vars

\* the operation handed a publish frame to the serial transport
HandedOver(o) ==
    \E i \in 1..Len(o.lines) : o.lines[i].cmd = "pub" /\ o.lines[i].written > 0

\* what publish_session returns for the arguments a, were the cached flags
\* wifi and mqtt
PublishResult(a, wifi_flag, mqtt_flag) ==
    LET g == [gateway EXCEPT !.wifi_connected = wifi_flag,
                             !.mqtt_connected = mqtt_flag]
        c == GwCtx(g, uart.rx, [NoObs EXCEPT !.op = "gw_publish_session", !.call = a])
    IN  UARTGateway_publish_session(c, a[1], a[2], a[3], a[4], a[5], a[6]).obs.ret

\* C29: publish of the relay bridge reports success exactly when it has
\* handed the publish frame to the serial transport; the result is the same
\* whatever the cached link and broker flags are, and the call leaves the
\* cached connectivity and the receive buffer as they were.
C29_PublishReportsHandOver ==
    [][obs'.op = "gw_publish_session" =>
          /\ obs'.ret = "true" <=> HandedOver(obs')
          /\ \A wifi_flag, mqtt_flag \in BOOLEAN :
                PublishResult(obs'.call, wifi_flag, mqtt_flag) = obs'.ret
          /\ Cached(gateway') = Cached(gateway)
          /\ gateway'.ip_address = gateway.ip_address
          /\ gateway'.rx_buffer = gateway.rx_buffer]_vars

\* a publish has succeeded while the bridge was not ready and a line was
\* half received
C29_Witness ==
    /\ obs.op = "gw_publish_session"
    /\ obs.ret = "true"
    /\ HandedOver(obs)
    /\ ~UARTGateway_is_ready(gateway)
    /\ gateway.rx_buffer # <<>>

\* C31: a status frame without the ip field leaves the cached address of the
\* relay bridge empty, whatever address an earlier frame has reported; so it
\* is after a frame that reports wifi = false without ip.
C31_MissingAddressClearsCache ==
    [][\A f \in 1..Len(Frames) :
          (/\ uart.fresh = f
           /\ Frames[f].status
           /\ Frames[f].ip = <<>>
           /\ TickEndsLine)
              => gateway'.ip_address = <<>>]_vars

\* a step is a provisioning write of the broker configuration
ConfigWritten == obs'.op = "handle_mqtt_config_write"

\* the write was "host:port|rest" with no separator in rest, and was accepted
AcceptedWithoutSeparator ==
    /\ ConfigWritten
    /\ obs'.ret = "true"
    /\ obs'.call.port # <<>>
    /\ \A i \in 1..Len(obs'.call.rest) : obs'.call.rest[i] # "|"

\* a text without the blanks around it (the texts written have none inside)
Unpadded(str) == SelectSeq(str, LAMBDA ch : ch # " ")

\* C32 as stated: a provisioning text "host:port|rest" without the separator
\* between username and password gives a broker configuration with an empty
\* username and an empty password.
C32_RemainderDiscarded ==
    [][AcceptedWithoutSeparator =>
          (mqtt'.username = <<>> /\ mqtt'.password = <<>>)]_vars

\* C32: a provisioning text "host:port|rest" without the separator between
\* username and password gives a broker configuration whose username is the
\* remainder, without the blanks around it, and whose password is empty.
C32_RemainderIsUsername ==
    [][AcceptedWithoutSeparator =>
          (mqtt'.username = Unpadded(obs'.call.rest) /\ mqtt'.password = <<>>)]_vars

\* "h:1883|u" has been accepted and the username is "u"
C32_Witness ==
    /\ obs.op = "handle_mqtt_config_write"
    /\ obs.ret = "true"
    /\ obs.call.rest = <<"u">>
    /\ mqtt.username = <<"u">>
    /\ mqtt.password = <<>>
    /\ nvs["mqtt_username"] = <<<<"u">>>>

\* what the broker manager holds and what its store holds
BrokerConfig == <<mqtt.broker, mqtt.port, mqtt.username, mqtt.password, nvs>>

\* C33: a provisioning write whose port text denotes a number outside
\* 1..65535 is rejected and leaves the broker configuration, in memory and
\* in the store, as it was; the number is never reduced modulo 2^16 and then
\* accepted.
C33_PortOutOfRangeRejected ==
    [][(/\ ConfigWritten
        /\ obs'.call.port # <<>>
        /\ obs'.call.port[1] \notin 1..(Half - 1))
          => (obs'.ret = "false" /\ BrokerConfig' = BrokerConfig)]_vars

\* the connectivity flags of the companion chip
CompanionFlags == <<companion.wifiConnected, companion.mqttConnected>>

\* C39: on the companion chip every change of wifiConnected or mqttConnected,
\* in either direction, is followed by a status frame to the main unit that
\* carries the new values: whenever the flags differ from those of the last
\* frame sent, a frame with the flags as they are follows.
C39_FlagChangeIsReported ==
    (CompanionFlags # companion.reported) ~> (CompanionFlags = companion.reported)

\* C40: on the companion chip, at every boundary of a loop iteration,
\* mqttConnected implies wifiConnected; no status frame reports mqtt = true
\* with wifi = false, and no publish is forwarded to the broker client while
\* the link is flagged down.
C40_BrokerFlagImpliesLinkFlag ==
    /\ companion.mqttConnected => companion.wifiConnected
    /\ \A i \in 1..Len(obs.status_frames) :
          ~(obs.status_frames[i].mqtt = <<TRUE>> /\ obs.status_frames[i].wifi = <<FALSE>>)
    /\ \A i \in 1..Len(obs.forwarded) : obs.forwarded[i].wifi

\* C34: within the drain of one tick no queue entry is retried more than once:
\* an entry whose retry fails goes to the back of the queue and is not sent
\* again before the next tick, also when fewer than 3 entries are pending; a
\* lone entry does not go from retry_count 0 to discarded within one tick.
C34_OneRetryPerEntryPerTick ==
    [][ obs'.op = "handle" =>
        \A i \in 1..Len(mqtt.publish_queue) :
            LET e == mqtt.publish_queue[i]
            IN  Fails(e.topic, obs'.sends) + Wins(e.topic, obs'.sends) <= 1 ]_vars

\* C35: every connection attempt of the broker manager, from enable() or from
\* a reconnect in handle(), targets the broker configuration in memory: the
\* server the client was given, host and port, is the stored one; also after
\* init() loaded enabled = true and after set_broker_config() while enabled.
C35_ConnectTargetsStoredConfig ==
    obs.op \in {"enable", "handle"} =>
        \A i \in 1..Len(obs.connects) : obs.connects[i] = <<mqtt.broker, mqtt.port>>

\* C37: in every reachable state of the broker manager, if enabled is false
\* the retry queue is empty: publish_session() does not enqueue while
\* disabled, and every path that clears enabled also clears the queue.
C37_DisabledMeansEmptyQueue == ~mqtt.enabled => mqtt.publish_queue = <<>>

\* C37 witness: disable() or clear_broker_config() has returned on a manager
\* that had been enabled with a server (only disable() clears the flag), the
\* flag is false in memory and in the store, and the queue is empty
C37_Witness ==
    /\ obs.op \in {"disable", "clear_broker_config"}
    /\ mqtt.mqtt_client.server # <<>>
    /\ nvs["mqtt_enabled"] = <<FALSE>>
    /\ ~mqtt.enabled
    /\ mqtt.publish_queue = <<>>

\* the broker manager a reboot gives: a new object, init() from the store
RebootedBroker == MQTTManager_init(Ctx(MQTTManager_new, nvs, NoObs), TRUE).m

\* the link manager a reboot gives
RebootedLink == WiFiManager_init(WifiCtx(WiFiManager_new, wifi_nvs, NoObs, FALSE), TRUE).w

BrokerSettings(m) == <<m.enabled, m.broker, m.port, m.username, m.password>>

LinkSettings(w) == <<w.enabled, w.ssid, w.password>>

\* C38: after any sequence of operations on a manager initialised with a
\* persistent store, the persisted enabled flag and the persisted credentials
\* or broker configuration equal those in memory: init() on a new object from
\* the store gives the same enabled flag and the same configuration.
C38_RebootReproducesSettings ==
    /\ mqtt.preferences =>
           /\ BrokerSettings(RebootedBroker) = BrokerSettings(mqtt)
           /\ mqtt.enabled = NvsGet(nvs, "mqtt_enabled", FALSE)
    /\ wifi.preferences =>
           /\ LinkSettings(RebootedLink) = LinkSettings(wifi)
           /\ wifi.enabled = NvsGet(wifi_nvs, "wifi_enabled", FALSE)

\* C38 witness: clear_broker_config() has returned on a manager with a store
\* that had been enabled with a server: the configuration and the flag are
\* gone from memory and from the store
C38_Witness ==
    /\ obs.op = "clear_broker_config"
    /\ mqtt.preferences
    /\ mqtt.mqtt_client.server # <<>>
    /\ mqtt.broker = <<>> /\ ~mqtt.enabled
    /\ nvs["mqtt_broker"] = <<>> /\ nvs["mqtt_enabled"] = <<FALSE>>

\* C36: while the broker stays connected and the ticks go on, every entry of
\* the retry queue is eventually removed, delivered or discarded at the retry
\* ceiling, whatever the outcomes of the sends and although new publishes keep
\* arriving: no session stays queued for ever.  Being queued leads to not
\* being queued exactly if, again and again, the session is not queued.
C36_EveryEntryLeavesQueue ==
    \A s \in 1..(MaxPending + 1) : []<>(~InQueue(s, mqtt.publish_queue))

\* C36 witness: a tick of the connected manager has retried three sessions in
\* vain, one of them for the second time, and all three are still queued
C36_Witness ==
    /\ obs.op = "handle"
    /\ mqtt.status = CONNECTED
    /\ Len(obs.sends) = max_per_cycle /\ ~\E i \in 1..Len(obs.sends) : obs.sends[i].ok
    /\ Len(mqtt.publish_queue) = MaxPending
    /\ \E i, j \in 1..MaxPending :
           /\ mqtt.publish_queue[i].retry_count = 2
           /\ mqtt.publish_queue[j].retry_count = 1
====
